---- MODULE Spec2Model ----
(***************************************************************************)
(* Merkle-tree integrity layer of the Patients table: row canonicalisation *)
(* and leaf hashing (merkle.py), tree building, inclusion proofs and their *)
(* verification (merkle.py), and the table operations and the with_proof   *)
(* endpoint built on them (userAuth.py, test_merkle_tampering.py).         *)
(*                                                                         *)
(* SHA-256 is modelled as a collision-free symbolic hash: the digest of a  *)
(* byte string is an opaque item that records the string it was computed   *)
(* from, so two digests are equal exactly when their inputs are equal.     *)
(***************************************************************************)
EXTENDS Integers, Sequences, FiniteSets, Bags, TLC

(***************************************************************************)
(* Bounds of the model.                                                    *)
(***************************************************************************)
MaxLeaves == 4
MaxFields == 2
MaxId == 2
TestPatients == 3
MaxBytes == 2
MaxGender == 2
MaxCalls == 1
MaxRows == 3

(***************************************************************************)
(* Byte strings.  A byte string is a sequence of chunks: a run of literal  *)
(* bytes (k = "lit", b = the bytes, each in 0..255) or the 32 bytes of one *)
(* SHA-256 digest kept as one opaque chunk (k = "dig", pre = the hashed    *)
(* input).  Cat keeps adjacent literal runs merged, so equal byte strings  *)
(* have equal representations.  The 64 hex digits of a digest are one      *)
(* chunk too (k = "hex").                                                  *)
(***************************************************************************)
Bytes(bs) == IF bs = <<>> THEN <<>> ELSE << [k |-> "lit", b |-> bs, pre |-> <<>>] >>

\* x + y on byte strings
Cat(x, y) ==
    IF x = <<>> THEN y
    ELSE IF y = <<>> THEN x
    ELSE IF x[Len(x)].k = "lit" /\ y[1].k = "lit"
    THEN SubSeq(x, 1, Len(x) - 1)
         \o << [k |-> "lit", b |-> x[Len(x)].b \o y[1].b, pre |-> <<>>] >>
         \o Tail(y)
    ELSE x \o y

\* merkle.py sha256: the raw digest of `data`, one opaque 32-byte chunk.
sha256(data) == << [k |-> "dig", b |-> <<>>, pre |-> data] >>

(***************************************************************************)
(* Python values handed to compute_row_hash: None, bytes, str, int, and    *)
(* floats with one decimal digit (n holds the value in tenths).  A str is  *)
(* a sequence of code points, a bytes value a sequence of 0..255.          *)
(***************************************************************************)
PyNone == [t |-> "none", s |-> <<>>, n |-> 0]
PyStr(cs) == [t |-> "str", s |-> cs, n |-> 0]
PyBytes(bs) == [t |-> "bytes", s |-> bs, n |-> 0]
PyInt(k) == [t |-> "int", s |-> <<>>, n |-> k]
PyFloat(tenths) == [t |-> "float", s |-> <<>>, n |-> tenths]

Pipe == 124
Dot == 46
Minus == 45
Zero == 48

RECURSIVE DecDigits(_)
DecDigits(k) ==
    IF k < 10 THEN <<Zero + k>>
    ELSE Append(DecDigits(k \div 10), Zero + (k % 10))

\* Python str(int).
StrInt(k) == IF k < 0 THEN <<Minus>> \o DecDigits(-k) ELSE DecDigits(k)

\* Python str(float) for a value with one decimal digit (65.5, 170.0).
StrFloat(tenths) ==
    IF tenths < 0
    THEN <<Minus>> \o DecDigits((-tenths) \div 10) \o <<Dot, Zero + ((-tenths) % 10)>>
    ELSE DecDigits(tenths \div 10) \o <<Dot, Zero + (tenths % 10)>>

\* merkle.py:26-33, the text one value contributes to the serialization;
\* the mutant writes a missing value as str(None).
RowPartNoneAsWord(v) ==
    CASE v.t = "none" -> <<78, 111, 110, 101>>
      [] v.t = "bytes" -> v.s
      [] v.t = "str" -> v.s
      [] v.t = "int" -> StrInt(v.n)
      [] v.t = "float" -> StrFloat(v.n)

RowPart(v) ==
    CASE v.t = "none" -> <<>>
      [] v.t = "bytes" -> v.s          \* v.decode('latin1'): byte k is code point k
      [] v.t = "str" -> v.s
      [] v.t = "int" -> StrInt(v.n)
      [] v.t = "float" -> StrFloat(v.n)

\* "|".join(parts)
RECURSIVE JoinPipe(_)
JoinPipe(parts) ==
    IF parts = <<>> THEN <<>>
    ELSE IF Len(parts) = 1 THEN parts[1]
    ELSE parts[1] \o <<Pipe>> \o JoinPipe(Tail(parts))

\* str.encode("utf-8") of one code point (no lone surrogates are drawn).
Utf8Char(cp) ==
    IF cp < 128 THEN <<cp>>
    ELSE IF cp < 2048 THEN <<192 + (cp \div 64), 128 + (cp % 64)>>
    ELSE IF cp < 65536
         THEN <<224 + (cp \div 4096), 128 + ((cp \div 64) % 64), 128 + (cp % 64)>>
    ELSE <<240 + (cp \div 262144), 128 + ((cp \div 4096) % 64),
           128 + ((cp \div 64) % 64), 128 + (cp % 64)>>

RECURSIVE Utf8(_)
Utf8(cs) == IF cs = <<>> THEN <<>> ELSE Utf8Char(cs[1]) \o Utf8(Tail(cs))

\* merkle.py:25-34, the bytes that are hashed for one row (before the prefix).
serialized(values) ==
    Utf8(JoinPipe([i \in 1..Len(values) |-> RowPart(values[i])]))

\* merkle.py compute_row_hash
compute_row_hash(values) == sha256(Cat(Bytes(<<0>>), Bytes(serialized(values))))

\* merkle.py node_hash; the mutant leaves the left child out of the hash
node_hash_ignores_left(left, right) == sha256(Cat(Bytes(<<1>>), right))

node_hash(left, right) ==
    sha256(Cat(Cat(Bytes(<<1>>), left), right))

\* merkle.py:58-67 (and 87-95): one halving round; the mutant hands an
\* unpaired last node up unchanged.
NextLevelPromote(level) ==
    [k \in 1..((Len(level) + 1) \div 2) |->
        IF 2 * k <= Len(level) THEN node_hash(level[2 * k - 1], level[2 * k])
        ELSE level[2 * k - 1]]

NextLevel(level) ==
    [k \in 1..((Len(level) + 1) \div 2) |->
        node_hash(level[2 * k - 1],
                  IF 2 * k <= Len(level) THEN level[2 * k] ELSE level[2 * k - 1])]

\* merkle.py:57-68, the while loop; the mutant pairs a single remaining node
\* with itself once more
RECURSIVE ReduceLevelsPairSingle(_)
ReduceLevelsPairSingle(level) ==
    IF Len(level) > 1 THEN ReduceLevelsPairSingle(NextLevel(level))
    ELSE node_hash(level[1], level[1])

RECURSIVE ReduceLevels(_)
ReduceLevels(level) ==
    IF Len(level) > 1 THEN ReduceLevels(NextLevel(level)) ELSE level[1]

\* merkle.py build_root_from_hashes; the mutant hashes an empty leaf for the
\* empty list
build_root_from_hashes_empty_leaf(leaf_hashes) ==
    IF leaf_hashes = <<>> THEN sha256(Bytes(<<0>>)) ELSE ReduceLevels(leaf_hashes)

build_root_from_hashes(leaf_hashes) ==
    IF leaf_hashes = <<>> THEN sha256(<<>>) ELSE ReduceLevels(leaf_hashes)

\* merkle.py:84-95, all levels from the leaves up to the root level; the
\* mutant stops one level early.
RECURSIVE BuildLevelsStopsEarly(_)
BuildLevelsStopsEarly(levels) ==
    IF Len(levels[Len(levels)]) > 2
    THEN BuildLevelsStopsEarly(Append(levels, NextLevel(levels[Len(levels)])))
    ELSE levels

RECURSIVE BuildLevels(_)
BuildLevels(levels) ==
    IF Len(levels[Len(levels)]) > 1
    THEN BuildLevels(Append(levels, NextLevel(levels[Len(levels)])))
    ELSE levels

\* merkle.py:97-113, the walk from the leaf up (idx is 0-based as in the code);
\* the mutant records the flag the wrong way round.
RECURSIVE ProofWalkFlipped(_, _, _)
ProofWalkFlipped(levels, l, idx) ==
    IF l >= Len(levels) THEN <<>>
    ELSE LET level == levels[l]
             step == IF idx % 2 = 0
                     THEN [sibling |-> level[(IF idx + 1 < Len(level) THEN idx + 1 ELSE idx) + 1],
                           is_left |-> TRUE]
                     ELSE [sibling |-> level[(idx - 1) + 1], is_left |-> FALSE]
         IN <<step>> \o ProofWalkFlipped(levels, l + 1, idx \div 2)

RECURSIVE ProofWalk(_, _, _)
ProofWalk(levels, l, idx) ==
    IF l >= Len(levels) THEN <<>>
    ELSE LET level == levels[l]
             step == IF idx % 2 = 0
                     THEN [sibling |-> level[(IF idx + 1 < Len(level) THEN idx + 1 ELSE idx) + 1],
                           is_left |-> FALSE]
                     ELSE [sibling |-> level[(idx - 1) + 1], is_left |-> TRUE]
         IN <<step>> \o ProofWalk(levels, l + 1, idx \div 2)

\* merkle.py get_proof; raised = TRUE stands for the IndexError.  The mutant
\* tests only the upper end of the range and counts a negative index from the
\* end of the list.
get_proof_no_lower_check(leaf_hashes, index) ==
    IF index >= Len(leaf_hashes)
    THEN [raised |-> TRUE, proof |-> <<>>]
    ELSE [raised |-> FALSE,
          proof |-> ProofWalk(BuildLevels(<<leaf_hashes>>), 1,
                              IF index < 0 /\ leaf_hashes # <<>>
                              THEN index % Len(leaf_hashes) ELSE index)]

get_proof(leaf_hashes, index) ==
    IF index < 0 \/ index >= Len(leaf_hashes)
    THEN [raised |-> TRUE, proof |-> <<>>]
    ELSE [raised |-> FALSE,
          proof |-> ProofWalk(BuildLevels(<<leaf_hashes>>), 1, index)]

\* merkle.py verify_proof; the mutant ignores is_left
RECURSIVE FoldProofRightOnly(_, _)
FoldProofRightOnly(cur, proof) ==
    IF proof = <<>> THEN cur
    ELSE FoldProofRightOnly(node_hash(cur, proof[1].sibling), Tail(proof))

RECURSIVE FoldProof(_, _)
FoldProof(cur, proof) ==
    IF proof = <<>> THEN cur
    ELSE FoldProof(IF proof[1].is_left
                   THEN node_hash(proof[1].sibling, cur)
                   ELSE node_hash(cur, proof[1].sibling),
                   Tail(proof))

\* merkle.py verify_proof; the mutant accepts an empty proof as it stands
verify_proof_accepts_empty(leaf_hash, proof, root) ==
    proof = <<>> \/ FoldProof(leaf_hash, proof) = root

verify_proof(leaf_hash, proof, root) ==
    FoldProof(leaf_hash, proof) = root

\* merkle.py bytes_to_hex / hex_to_bytes: a literal byte becomes two hex
\* digits, the 32 bytes of a digest become its 64 hex digits (one chunk).
HexDigit(d) == IF d < 10 THEN Zero + d ELSE 97 + (d - 10)

HexVal(c) == IF c >= 97 THEN c - 97 + 10 ELSE c - Zero

RECURSIVE HexOfRun(_)
HexOfRun(bs) ==
    IF bs = <<>> THEN <<>>
    ELSE <<HexDigit(bs[1] \div 16), HexDigit(bs[1] % 16)>> \o HexOfRun(Tail(bs))

RECURSIVE RunOfHex(_)
RunOfHex(cs) ==
    IF cs = <<>> THEN <<>>
    ELSE <<16 * HexVal(cs[1]) + HexVal(cs[2])>> \o RunOfHex(Tail(Tail(cs)))

RECURSIVE bytes_to_hex(_)
bytes_to_hex(bs) ==
    IF bs = <<>> THEN <<>>
    ELSE Cat(IF bs[1].k = "dig"
             THEN << [k |-> "hex", b |-> <<>>, pre |-> <<bs[1]>>] >>
             ELSE Bytes(HexOfRun(bs[1].b)),
             bytes_to_hex(Tail(bs)))

RECURSIVE hex_to_bytes(_)
hex_to_bytes(h) ==
    IF h = <<>> THEN <<>>
    ELSE Cat(IF h[1].k = "hex" THEN <<h[1].pre[1]>> ELSE Bytes(RunOfHex(h[1].b)),
             hex_to_bytes(Tail(h)))

(***************************************************************************)
(* State.                                                                  *)
(*   vLeaves .. vPc   one run of the Merkle functions on a leaf list       *)
(*   vLeavesB, vRootB a second leaf list and its root, for comparisons     *)
(*   rA .. rPc        one run of compute_row_hash on two field lists       *)
(*   Patients         the Patients table: id -> stored row                  *)
(*   nextId           the table's AUTO_INCREMENT counter                    *)
(*   merkle_root_cache  the pinned root (hex), <<>> while none is pinned    *)
(*   lastResult       what the last get_patient_with_merkle_proof returned  *)
(*   response         what the last call returned to its caller             *)
(*   pinnedBy, pinnedLeaves, dirty   history of the pinning (not program   *)
(*                    state): who set the cached root, the row hashes it    *)
(*                    was computed over, and whether a later insert or      *)
(*                    update has changed a stored row hash since            *)
(*   qPc .. qIds      one get_patient_with_merkle_proof call taken one      *)
(*                    SELECT at a time: its position, the patient asked     *)
(*                    for, how the connection reads (qMode, with qSnap the  *)
(*                    table as its first SELECT saw it), and what the three *)
(*                    SELECTs returned                                      *)
(*   cGender .. cPc   one run of encrypt_gender_age / decrypt_gender_age:   *)
(*                    the plaintext fields, the nonce and the ciphertext    *)
(*                    as they reach decrypt_gender_age, and what it gave    *)
(***************************************************************************)
VARIABLES vLeaves, vRoot, vIndex, vProof, vCand, vSuffix, vVerdict, vPc,
          vLeavesB, vRootB,
          rA, rB, rSerA, rSerB, rHashA, rHashB, rPc,
          Patients, nextId, merkle_root_cache, lastResult, response,
          pinnedBy, pinnedLeaves, dirty, computeCalls,
          wPc, wCall, wTx,
          qPc, qId, qMode, qSnap, qRow, qLeaves, qIds, qFetched,
          cGender, cAge, cNonce, cCiphertext, cOut, cPc

merkleVars == <<vLeaves, vRoot, vIndex, vProof, vCand, vSuffix, vVerdict, vPc,
                vLeavesB, vRootB>>
rowVars == <<rA, rB, rSerA, rSerB, rHashA, rHashB, rPc>>
writeVars == <<wPc, wCall, wTx>>
queryVars == <<qPc, qId, qMode, qSnap, qRow, qLeaves, qIds, qFetched>>
dbVars == <<Patients, nextId, merkle_root_cache, lastResult, response,
            pinnedBy, pinnedLeaves, dirty, computeCalls, writeVars, queryVars>>
cipherVars == <<cGender, cAge, cNonce, cCiphertext, cOut, cPc>>
vars == <<merkleVars, rowVars, dbVars, cipherVars>>

\* Sequences over S of length 0..n.
SeqsUpTo(S, n) == UNION {[1..k -> S] : k \in 0..n}

MerkleIdle ==
    /\ vLeaves = <<>> /\ vRoot = <<>> /\ vIndex = 0
    /\ vProof = [raised |-> FALSE, proof |-> <<>>]
    /\ vCand = <<>> /\ vSuffix = 0 /\ vVerdict = FALSE /\ vPc = "idle"
    /\ vLeavesB = <<>> /\ vRootB = <<>>

RowIdle ==
    /\ rA = <<>> /\ rB = <<>> /\ rSerA = <<>> /\ rSerB = <<>>
    /\ rHashA = <<>> /\ rHashB = <<>> /\ rPc = "idle"

NoOutput == [raised |-> FALSE, some |-> FALSE, gender |-> <<>>, age |-> 0]

CipherIdle ==
    /\ cGender = <<>> /\ cAge = 0 /\ cNonce = <<>> /\ cCiphertext = <<>>
    /\ cOut = NoOutput /\ cPc = "idle"

NoResult ==
    [some |-> FALSE, patient_id |-> 0, patient |-> <<>>, row_hash |-> <<>>,
     proof |-> <<>>, merkle_root |-> <<>>]

NoResponse ==
    [op |-> "none", patient_id |-> 0, status |-> 0, kind |-> "none",
     verified |-> FALSE, patient |-> <<>>]

\* No insert_patient_with_hash or update_patient_with_hash call is between
\* its two statements.
NoCall == [id |-> 0, f |-> <<>>, autocommit |-> FALSE]

\* The state after the module is loaded: an empty table, no root pinned
\* (userAuth.py:57-60).
DbIdle ==
    /\ Patients = <<>> /\ nextId = 1 /\ merkle_root_cache = <<>>
    /\ lastResult = NoResult /\ response = NoResponse
    /\ pinnedBy = "none" /\ pinnedLeaves = <<>> /\ dirty = FALSE
    /\ computeCalls = EmptyBag
    /\ wPc = "idle" /\ wCall = NoCall /\ wTx = <<>>
    /\ qPc = "idle" /\ qId = 0 /\ qMode = "live" /\ qSnap = <<>>
    /\ qRow = <<>> /\ qLeaves = <<>> /\ qIds = <<>> /\ qFetched = <<>>

(***************************************************************************)
(* The Merkle functions on bounded leaf lists.  The leaves are row hashes  *)
(* of small rows; candidates handed to verify_proof are those leaves and   *)
(* the internal nodes of the tree.                                         *)
(***************************************************************************)
LeafPool == {compute_row_hash(<<PyInt(k)>>) : k \in 1..3}

\* Every node value above the leaf level (merkle.py:84-95).
InternalNodes(leaf_hashes) ==
    IF leaf_hashes = <<>> THEN {}
    ELSE LET levels == BuildLevels(<<leaf_hashes>>)
         IN UNION {{levels[l][k] : k \in 1..Len(levels[l])} : l \in 2..Len(levels)}

\* The node on the path of leaf `index` at level l (l = 0 is the leaf level).
PathNode(leaf_hashes, index, l) ==
    LET levels == BuildLevels(<<leaf_hashes>>)
    IN levels[l + 1][(index \div (2 ^ l)) + 1]

InitMerkle ==
    /\ vLeaves \in SeqsUpTo(LeafPool, MaxLeaves)
    /\ vRoot = <<>> /\ vIndex = 0
    /\ vProof = [raised |-> FALSE, proof |-> <<>>]
    /\ vCand = <<>> /\ vSuffix = 0 /\ vVerdict = FALSE /\ vPc = "start"
    /\ vLeavesB = <<>> /\ vRootB = <<>>
    /\ RowIdle
    /\ DbIdle
    /\ CipherIdle

BuildRoot ==
    /\ vPc = "start"
    /\ vRoot' = build_root_from_hashes(vLeaves)
    /\ vPc' = "built"
    /\ UNCHANGED <<vLeaves, vIndex, vProof, vCand, vSuffix, vVerdict,
                   vLeavesB, vRootB, rowVars, dbVars, cipherVars>>

GetProof(i) ==
    /\ vPc = "built"
    /\ vIndex' = i
    /\ vProof' = get_proof(vLeaves, i)
    /\ vPc' = "proved"
    /\ UNCHANGED <<vLeaves, vRoot, vCand, vSuffix, vVerdict,
                   vLeavesB, vRootB, rowVars, dbVars, cipherVars>>

\* verify_proof on candidate c with the proof from its k-th pair on.
VerifyProof(c, k) ==
    /\ vPc = "proved"
    /\ ~vProof.raised
    /\ k <= Len(vProof.proof)
    /\ vCand' = c
    /\ vSuffix' = k
    /\ vVerdict' = verify_proof(c, SubSeq(vProof.proof, k + 1, Len(vProof.proof)), vRoot)
    /\ vPc' = "verified"
    /\ UNCHANGED <<vLeaves, vRoot, vIndex, vProof, vLeavesB, vRootB, rowVars, dbVars, cipherVars>>

NextMerkle ==
    \/ BuildRoot
    \/ \E i \in -1..MaxLeaves : i <= Len(vLeaves) /\ GetProof(i)
    \/ \E c \in LeafPool \cup InternalNodes(vLeaves), k \in 0..MaxLeaves : VerifyProof(c, k)

SpecMerkle == InitMerkle /\ [][NextMerkle]_vars

(***************************************************************************)
(* build_root_from_hashes on a leaf list and on a changed copy of it: one  *)
(* leaf replaced by a different digest (a row hash or a node of the tree), *)
(* or two leaves holding different digests swapped.                        *)
(***************************************************************************)
OneLeafReplaced(a, b) ==
    /\ Len(a) = Len(b)
    /\ \E i \in 1..Len(a) :
          /\ a[i] # b[i]
          /\ \A j \in 1..Len(a) : j # i => a[j] = b[j]

TwoLeavesSwapped(a, b) ==
    /\ Len(a) = Len(b)
    /\ \E i, j \in 1..Len(a) :
          /\ i < j
          /\ a[i] # a[j]
          /\ b = [a EXCEPT ![i] = a[j], ![j] = a[i]]

InitRootChange ==
    /\ vLeaves \in SeqsUpTo(LeafPool, MaxLeaves)
    /\ \/ \E i \in 1..Len(vLeaves), d \in LeafPool \cup InternalNodes(vLeaves) :
             d # vLeaves[i] /\ vLeavesB = [vLeaves EXCEPT ![i] = d]
       \/ \E i, j \in 1..Len(vLeaves) :
             /\ i < j /\ vLeaves[i] # vLeaves[j]
             /\ vLeavesB = [vLeaves EXCEPT ![i] = vLeaves[j], ![j] = vLeaves[i]]
    /\ vRoot = <<>> /\ vRootB = <<>> /\ vIndex = 0
    /\ vProof = [raised |-> FALSE, proof |-> <<>>]
    /\ vCand = <<>> /\ vSuffix = 0 /\ vVerdict = FALSE /\ vPc = "start"
    /\ RowIdle
    /\ DbIdle
    /\ CipherIdle

BuildBothRoots ==
    /\ vPc = "start"
    /\ vRoot' = build_root_from_hashes(vLeaves)
    /\ vRootB' = build_root_from_hashes(vLeavesB)
    /\ vPc' = "compared"
    /\ UNCHANGED <<vLeaves, vLeavesB, vIndex, vProof, vCand, vSuffix, vVerdict,
                   rowVars, dbVars, cipherVars>>

NextRootChange == BuildBothRoots

SpecRootChange == InitRootChange /\ [][NextRootChange]_vars

(***************************************************************************)
(* build_root_from_hashes on two leaf lists of different lengths: the      *)
(* second list is the first with a copy of its last leaf appended, with    *)
(* an aligned pair of leaves replaced by their node_hash, or cut to a      *)
(* proper prefix.                                                          *)
(***************************************************************************)
LastAppended(a) == Append(a, a[Len(a)])

PairCollapsed(a, k) ==
    SubSeq(a, 1, 2 * k - 2) \o <<node_hash(a[2 * k - 1], a[2 * k])>>
        \o SubSeq(a, 2 * k + 1, Len(a))

InitRootLength ==
    /\ vLeaves \in SeqsUpTo(LeafPool, MaxLeaves)
    /\ \/ vLeaves # <<>> /\ vLeavesB = LastAppended(vLeaves)
       \/ \E k \in 1..MaxLeaves :
             2 * k <= Len(vLeaves) /\ vLeavesB = PairCollapsed(vLeaves, k)
       \/ \E n \in 0..MaxLeaves :
             n < Len(vLeaves) /\ vLeavesB = SubSeq(vLeaves, 1, n)
    /\ vRoot = <<>> /\ vRootB = <<>> /\ vIndex = 0
    /\ vProof = [raised |-> FALSE, proof |-> <<>>]
    /\ vCand = <<>> /\ vSuffix = 0 /\ vVerdict = FALSE /\ vPc = "start"
    /\ RowIdle
    /\ DbIdle
    /\ CipherIdle

NextRootLength == BuildBothRoots

SpecRootLength == InitRootLength /\ [][NextRootLength]_vars

(***************************************************************************)
(* compute_row_hash on two bounded field lists of the same length.         *)
(***************************************************************************)
S_a == <<97>>
S_c == <<99>>
S_a_pipe_b == <<97, Pipe, 98>>
S_b_pipe_c == <<98, Pipe, 99>>
S_None == <<78, 111, 110, 101>>

FieldValues ==
    {PyNone, PyStr(<<>>), PyStr(S_a), PyStr(S_c), PyStr(S_a_pipe_b),
     PyStr(S_b_pipe_c), PyStr(S_None)}

InitRow ==
    /\ rA \in SeqsUpTo(FieldValues, MaxFields)
    /\ rB \in SeqsUpTo(FieldValues, MaxFields)
    /\ Len(rA) = Len(rB)
    /\ rSerA = <<>> /\ rSerB = <<>> /\ rHashA = <<>> /\ rHashB = <<>>
    /\ rPc = "start"
    /\ MerkleIdle
    /\ DbIdle
    /\ CipherIdle

Canonicalize ==
    /\ rPc = "start"
    /\ rSerA' = serialized(rA)
    /\ rSerB' = serialized(rB)
    /\ rHashA' = compute_row_hash(rA)
    /\ rHashB' = compute_row_hash(rB)
    /\ rPc' = "hashed"
    /\ UNCHANGED <<rA, rB, merkleVars, dbVars, cipherVars>>

NextRow == Canonicalize

SpecRow == InitRow /\ [][NextRow]_vars

(***************************************************************************)
(* compute_row_hash on one bytes-typed field, next to the str that holds   *)
(* the same values as code points.                                         *)
(***************************************************************************)
BytePool == {0, 65, 124, 127, 128, 233, 255}

InitBytes ==
    /\ \E bs \in SeqsUpTo(BytePool, MaxBytes) :
          /\ rA = <<PyBytes(bs)>>
          /\ rB = <<PyStr(bs)>>
    /\ rSerA = <<>> /\ rSerB = <<>> /\ rHashA = <<>> /\ rHashB = <<>>
    /\ rPc = "start"
    /\ MerkleIdle
    /\ DbIdle
    /\ CipherIdle

SpecBytes == InitBytes /\ [][NextRow]_vars

(***************************************************************************)
(* The Patients table and the operations on it.  The table keeps the       *)
(* values it is given and returns them unchanged; a NULL row_hash is the   *)
(* empty byte string (both are falsy in the code's tests).                 *)
(***************************************************************************)
S_Alice == <<65, 108, 105, 99, 101>>
S_Bob == <<66, 111, 98>>
S_Carol == <<67, 97, 114, 111, 108>>
S_Smith == <<83>>
S_F == <<70>>
S_ok == <<111, 107>>
\* test_merkle_tampering.py:163, shortened to its first word
S_TAMPERED == <<84, 65, 77, 80, 69, 82, 69, 68>>

NullHash == <<>>

\* The field values an insert or update is called with.
P0 ==
    [first_name |-> PyStr(S_Alice), last_name |-> PyStr(S_Smith),
     health_history |-> PyStr(S_ok), gender |-> PyStr(S_F),
     age |-> PyInt(28), weight |-> PyFloat(655), height |-> PyFloat(1700)]

P1 == [P0 EXCEPT !.health_history = PyStr(S_TAMPERED)]

PatientInputs == {P0, P1}

\* The three patients of test_merkle_tampering.py:38-66 (texts shortened).
S_Johnson == <<74>>
S_Williams == <<87>>
S_M == <<77>>
S_Hypertension == <<72, 121, 112>>
S_Diabetes == <<68, 105, 97>>

PBob ==
    [first_name |-> PyStr(S_Bob), last_name |-> PyStr(S_Johnson),
     health_history |-> PyStr(S_Hypertension), gender |-> PyStr(S_M),
     age |-> PyInt(45), weight |-> PyFloat(850), height |-> PyFloat(1800)]

PCarol ==
    [first_name |-> PyStr(S_Carol), last_name |-> PyStr(S_Williams),
     health_history |-> PyStr(S_Diabetes), gender |-> PyStr(S_F),
     age |-> PyInt(52), weight |-> PyFloat(723), height |-> PyFloat(1650)]

test_patients == <<P0, PBob, PCarol>>

\* The dict built at userAuth.py:106-115, 145-154 and 262-271.
PatientDict(id, f) ==
    [id |-> PyInt(id), first_name |-> f.first_name, last_name |-> f.last_name,
     health_history |-> f.health_history, gender |-> f.gender, age |-> f.age,
     weight |-> f.weight, height |-> f.height]

StoredRow(f, h) ==
    [first_name |-> f.first_name, last_name |-> f.last_name,
     health_history |-> f.health_history, gender |-> f.gender, age |-> f.age,
     weight |-> f.weight, height |-> f.height, row_hash |-> h]

\* userAuth.py compute_patient_row_hash; the mutant leaves health_history out
compute_patient_row_hash_no_history(patient_data) ==
    bytes_to_hex(compute_row_hash(
        <<patient_data.id, patient_data.first_name, patient_data.last_name,
          patient_data.gender, patient_data.age,
          patient_data.weight, patient_data.height>>))

compute_patient_row_hash(patient_data) ==
    bytes_to_hex(compute_row_hash(
        <<patient_data.id, patient_data.first_name, patient_data.last_name,
          patient_data.health_history, patient_data.gender, patient_data.age,
          patient_data.weight, patient_data.height>>))

\* ORDER BY id ASC
RECURSIVE Ascending(_)
Ascending(S) ==
    IF S = {} THEN <<>>
    ELSE LET m == CHOOSE x \in S : \A y \in S : x <= y
         IN <<m>> \o Ascending(S \ {m})

OrderedIds(P) == Ascending(DOMAIN P)

\* userAuth.py:276-278 (and 191-198): the non-NULL row hashes in id order.
RECURSIVE HashesOf(_, _)
HashesOf(P, ids) ==
    IF ids = <<>> THEN <<>>
    ELSE (IF P[ids[1]].row_hash # NullHash THEN <<P[ids[1]].row_hash>> ELSE <<>>)
         \o HashesOf(P, Tail(ids))

LeafHashes(P) == HashesOf(P, OrderedIds(P))

\* userAuth.py:285-288: ids.index(patient_id), 0-based.
PatientIndex(P, patient_id) == Cardinality({i \in DOMAIN P : i < patient_id})

\* userAuth.py:181-182: SELECT id, row_hash FROM Patients ORDER BY id ASC
SelectIdAndHash(P) ==
    [k \in 1..Len(OrderedIds(P)) |->
        [id |-> OrderedIds(P)[k], row_hash |-> P[OrderedIds(P)[k]].row_hash]]

\* userAuth.py:191-198: the row hashes of the fetched rows that are not NULL
RECURSIVE RowsLeafHashes(_)
RowsLeafHashes(rows) ==
    IF rows = <<>> THEN <<>>
    ELSE (IF rows[1].row_hash # NullHash THEN <<rows[1].row_hash>> ELSE <<>>)
         \o RowsLeafHashes(Tail(rows))

\* userAuth.py:181-198: what compute_patients_merkle_root keeps of the rows
\* its SELECT returned: whether there were none, and the row hashes that
\* are not NULL.
FetchedHashes(P) ==
    [no_rows |-> SelectIdAndHash(P) = <<>>,
     leaf_hashes |-> RowsLeafHashes(SelectIdAndHash(P))]

\* userAuth.py:184-205, the root compute_patients_merkle_root builds from
\* them.
ComputedRootHex(fetched) ==
    IF fetched.no_rows THEN bytes_to_hex(build_root_from_hashes(<<>>))
    ELSE IF fetched.leaf_hashes = <<>> THEN bytes_to_hex(build_root_from_hashes(<<>>))
    ELSE bytes_to_hex(build_root_from_hashes(fetched.leaf_hashes))

\* userAuth.py:293-299: the proof in its JSON form; an exception gives [].
ProofToHex(proof) ==
    [k \in 1..Len(proof) |->
        [sibling |-> bytes_to_hex(proof[k].sibling), is_left |-> proof[k].is_left]]

ProofFromHex(proof) ==
    [k \in 1..Len(proof) |->
        [sibling |-> hex_to_bytes(proof[k].sibling), is_left |-> proof[k].is_left]]

\* ids.index(patient_id), 0-based (userAuth.py:287)
IndexOf(ids, x) == (CHOOSE k \in 1..Len(ids) : ids[k] = x) - 1

\* userAuth.py:259-312: the dict get_patient_with_merkle_proof returns, built
\* from what its SELECTs returned and the root it obtained.
proof_result(row, leaf_hashes, ids, root, patient_id) ==
    LET got == get_proof(leaf_hashes, IndexOf(ids, patient_id))
    IN [some |-> TRUE,
        patient_id |-> patient_id,
        patient |-> PatientDict(patient_id, row),
        row_hash |-> IF row.row_hash # NullHash
                     THEN bytes_to_hex(row.row_hash) ELSE <<>>,
        proof |-> IF got.raised THEN <<>> ELSE ProofToHex(got.proof),
        merkle_root |-> root]

\* userAuth.py get_patient_with_proof, the response for a result; the mutant
\* skips the comparison of the data with the stored hash
with_proof_response_no_data_check(result, patient_id) ==
    IF ~result.some
    THEN [op |-> "with_proof", patient_id |-> patient_id, status |-> 404,
          kind |-> "not_found", verified |-> FALSE, patient |-> <<>>]
    ELSE IF result.row_hash = <<>> \/ result.merkle_root = <<>>
    THEN [op |-> "with_proof", patient_id |-> patient_id, status |-> 400,
          kind |-> "missing", verified |-> FALSE, patient |-> <<>>]
    ELSE IF ~verify_proof(hex_to_bytes(result.row_hash), ProofFromHex(result.proof),
                          hex_to_bytes(result.merkle_root))
    THEN [op |-> "with_proof", patient_id |-> patient_id, status |-> 400,
          kind |-> "proof_failed", verified |-> FALSE, patient |-> <<>>]
    ELSE [op |-> "with_proof", patient_id |-> patient_id, status |-> 200,
          kind |-> "ok", verified |-> TRUE, patient |-> <<result.patient>>]

with_proof_response(result, patient_id) ==
    IF ~result.some
    THEN [op |-> "with_proof", patient_id |-> patient_id, status |-> 404,
          kind |-> "not_found", verified |-> FALSE, patient |-> <<>>]
    ELSE IF result.row_hash # <<>>
            /\ compute_patient_row_hash(result.patient) # result.row_hash
    THEN [op |-> "with_proof", patient_id |-> patient_id, status |-> 400,
          kind |-> "breach", verified |-> FALSE, patient |-> <<>>]
    ELSE IF result.row_hash = <<>> \/ result.merkle_root = <<>>
    THEN [op |-> "with_proof", patient_id |-> patient_id, status |-> 400,
          kind |-> "missing", verified |-> FALSE, patient |-> <<>>]
    ELSE IF ~verify_proof(hex_to_bytes(result.row_hash), ProofFromHex(result.proof),
                          hex_to_bytes(result.merkle_root))
    THEN [op |-> "with_proof", patient_id |-> patient_id, status |-> 400,
          kind |-> "proof_failed", verified |-> FALSE, patient |-> <<>>]
    ELSE [op |-> "with_proof", patient_id |-> patient_id, status |-> 200,
          kind |-> "ok", verified |-> TRUE, patient |-> <<result.patient>>]

WriteReturned(ok) ==
    [op |-> "write", patient_id |-> 0, status |-> 0,
     kind |-> IF ok THEN "True" ELSE "False", verified |-> FALSE, patient |-> <<>>]

Init ==
    /\ DbIdle
    /\ CipherIdle
    /\ MerkleIdle
    /\ RowIdle

\* A get_patient_with_proof call has run its first SELECT and not answered.
QueryInFlight == qPc \in {"row", "hashes", "ids", "compute", "root"}

\* What another call does to the record of the query call: the locals of a
\* call that has returned are dropped, those of a call in flight are kept.
OtherCall ==
    IF qPc = "done"
    THEN /\ qPc' = "idle" /\ qId' = 0 /\ qMode' = "live" /\ qSnap' = <<>>
         /\ qRow' = <<>> /\ qLeaves' = <<>> /\ qIds' = <<>> /\ qFetched' = <<>>
    ELSE UNCHANGED queryVars

(***************************************************************************)
(* insert_patient_with_hash and update_patient_with_hash taken one         *)
(* statement at a time.  The functions execute on the caller's cursor and  *)
(* do not commit; the caller commits afterwards                            *)
(* (test_merkle_tampering.py:86, once after three calls).  Whether another *)
(* connection sees a statement's effect at once or at the commit is left   *)
(* to the connection: with autocommit each statement changes the table     *)
(* the others read; with a transaction open the changes stay in wTx, the   *)
(* table as the writing connection sees it, until the commit.  One         *)
(* connection writes at a time.  Patients is the committed table, which    *)
(* every other connection reads.                                           *)
(***************************************************************************)
WriteModes == {"autocommit", "transaction"}

\* the table as the writing connection sees it
WTable == IF wTx # <<>> THEN wTx[1] ELSE Patients

\* the writing connection has nothing uncommitted
Committed == wTx = <<>>

\* a stored row hash of T2 is not the one T holds for that row
HashChanged(T, T2) ==
    \E id \in DOMAIN T2 :
        /\ T2[id].row_hash # NullHash
        /\ (id \notin DOMAIN T \/ T[id].row_hash # T2[id].row_hash)

\* the effect of one statement of the writing connection
ExecuteWrite(T, autocommit) ==
    IF autocommit
    THEN /\ Patients' = T
         /\ dirty' = (dirty \/ (merkle_root_cache # <<>> /\ HashChanged(Patients, T)))
         /\ UNCHANGED wTx
    ELSE /\ wTx' = <<T>>
         /\ UNCHANGED <<Patients, dirty>>

\* INSERT INTO Patients (...) VALUES (...): the row gets the next id and no
\* row_hash
InsertRow(T, new_id, f) ==
    [i \in DOMAIN T \cup {new_id} |-> IF i = new_id THEN StoredRow(f, NullHash) ELSE T[i]]

\* UPDATE Patients SET first_name = ..., height = ... WHERE id = %s
UpdateFields(T, patient_id, f) ==
    IF patient_id \in DOMAIN T
    THEN [T EXCEPT ![patient_id] = StoredRow(f, T[patient_id].row_hash)]
    ELSE T

\* UPDATE Patients SET row_hash = UNHEX(%s) WHERE id = %s, with the hash of
\* the dict built from the call's arguments
SetRowHash(T, patient_id, f) ==
    IF patient_id \in DOMAIN T
    THEN [T EXCEPT ![patient_id].row_hash =
              hex_to_bytes(compute_patient_row_hash(PatientDict(patient_id, f)))]
    ELSE T

\* userAuth.py:95-103: the INSERT.  When it raises, the function catches the
\* exception and returns False (userAuth.py:123-125).
insert_patient_with_hash_insert(f, mode, ok) ==
    /\ wPc = "idle"
    /\ ~Committed => mode = "transaction"
    /\ IF ok
       THEN /\ ExecuteWrite(InsertRow(WTable, nextId, f), mode = "autocommit")
            /\ nextId' = nextId + 1
            /\ wPc' = "insert"
            /\ wCall' = [id |-> nextId, f |-> <<f>>, autocommit |-> (mode = "autocommit")]
            /\ response' = NoResponse
       ELSE /\ UNCHANGED <<Patients, nextId, dirty, writeVars>>
            /\ response' = WriteReturned(FALSE)
    /\ OtherCall
    /\ lastResult' = NoResult
    /\ UNCHANGED <<merkle_root_cache, pinnedBy, pinnedLeaves, computeCalls,
                   merkleVars, rowVars, cipherVars>>

\* userAuth.py:105-125: the hash of the new row and the UPDATE that stores
\* it; the function returns True, or False when the UPDATE raises (nothing
\* is rolled back).
insert_patient_with_hash_hash(ok) ==
    /\ wPc = "insert"
    /\ IF ok
       THEN ExecuteWrite(SetRowHash(WTable, wCall.id, wCall.f[1]), wCall.autocommit)
       ELSE UNCHANGED <<Patients, dirty, wTx>>
    /\ wPc' = "idle"
    /\ wCall' = NoCall
    /\ OtherCall
    /\ response' = WriteReturned(ok)
    /\ lastResult' = NoResult
    /\ UNCHANGED <<nextId, merkle_root_cache, pinnedBy, pinnedLeaves, computeCalls,
                   merkleVars, rowVars, cipherVars>>

\* userAuth.py:134-142: the UPDATE of the fields (of no row when the id is
\* not in the table).
update_patient_with_hash_update(patient_id, f, mode, ok) ==
    /\ wPc = "idle"
    /\ ~Committed => mode = "transaction"
    /\ IF ok
       THEN /\ ExecuteWrite(UpdateFields(WTable, patient_id, f), mode = "autocommit")
            /\ wPc' = "update"
            /\ wCall' = [id |-> patient_id, f |-> <<f>>,
                         autocommit |-> (mode = "autocommit")]
            /\ response' = NoResponse
       ELSE /\ UNCHANGED <<Patients, dirty, writeVars>>
            /\ response' = WriteReturned(FALSE)
    /\ OtherCall
    /\ lastResult' = NoResult
    /\ UNCHANGED <<nextId, merkle_root_cache, pinnedBy, pinnedLeaves, computeCalls,
                   merkleVars, rowVars, cipherVars>>

\* userAuth.py:144-164: the hash of the new values and the UPDATE that
\* stores it.  The mutant returns without storing the hash.
update_patient_with_hash_hash_not_stored(ok) ==
    /\ wPc = "update"
    /\ UNCHANGED <<Patients, dirty, wTx>>
    /\ wPc' = "idle"
    /\ wCall' = NoCall
    /\ OtherCall
    /\ response' = WriteReturned(ok)
    /\ lastResult' = NoResult
    /\ UNCHANGED <<nextId, merkle_root_cache, pinnedBy, pinnedLeaves, computeCalls,
                   merkleVars, rowVars, cipherVars>>

update_patient_with_hash_hash(ok) ==
    /\ wPc = "update"
    /\ IF ok
       THEN ExecuteWrite(SetRowHash(WTable, wCall.id, wCall.f[1]), wCall.autocommit)
       ELSE UNCHANGED <<Patients, dirty, wTx>>
    /\ wPc' = "idle"
    /\ wCall' = NoCall
    /\ OtherCall
    /\ response' = WriteReturned(ok)
    /\ lastResult' = NoResult
    /\ UNCHANGED <<nextId, merkle_root_cache, pinnedBy, pinnedLeaves, computeCalls,
                   merkleVars, rowVars, cipherVars>>

\* test_merkle_tampering.py:86: mysql.connection.commit() by the caller,
\* after the calls it made have returned.
commit ==
    /\ wPc = "idle"
    /\ ~Committed
    /\ Patients' = wTx[1]
    /\ wTx' = <<>>
    /\ dirty' = (dirty \/ (merkle_root_cache # <<>> /\ HashChanged(Patients, wTx[1])))
    /\ OtherCall
    /\ response' = NoResponse
    /\ lastResult' = NoResult
    /\ UNCHANGED <<nextId, wPc, wCall, merkle_root_cache, pinnedBy, pinnedLeaves,
                   computeCalls, merkleVars, rowVars, cipherVars>>

(***************************************************************************)
(* compute_patients_merkle_root (POST /compute_merkle_root,                *)
(* test_merkle_tampering.py:99) in its two steps: the SELECT, and the      *)
(* write of the root built from the fetched rows into merkle_root_cache.   *)
(* Calls of other clients fit in between; computeCalls holds what the      *)
(* calls that have run their SELECT and not yet stored their root fetched. *)
(***************************************************************************)
\* userAuth.py:174-183
compute_patients_merkle_root_select ==
    /\ BagCardinality(computeCalls) < MaxCalls
    /\ computeCalls' = computeCalls (+) SetToBag({FetchedHashes(Patients)})
    /\ OtherCall
    /\ response' = NoResponse
    /\ lastResult' = NoResult
    /\ UNCHANGED <<Patients, nextId, merkle_root_cache, pinnedBy, pinnedLeaves, dirty,
                   writeVars, merkleVars, rowVars, cipherVars>>

\* userAuth.py:184-219
compute_patients_merkle_root_store(fetched) ==
    /\ BagIn(fetched, computeCalls)
    /\ computeCalls' = computeCalls (-) SetToBag({fetched})
    /\ merkle_root_cache' = ComputedRootHex(fetched)
    /\ pinnedBy' = "explicit"
    /\ pinnedLeaves' = fetched.leaf_hashes
    /\ dirty' = FALSE
    /\ OtherCall
    /\ response' = NoResponse
    /\ lastResult' = NoResult
    /\ UNCHANGED <<Patients, nextId, writeVars, merkleVars, rowVars, cipherVars>>

(***************************************************************************)
(* get_patient_with_proof (GET /patient/<id>/with_proof) taken one         *)
(* statement of get_patient_with_merkle_proof at a time, with calls of     *)
(* other clients in between.  The code opens no transaction and sets no    *)
(* isolation level, so what the later SELECTs see is left to the           *)
(* connection: the table as it is when they run (qMode = "live":           *)
(* autocommit, READ COMMITTED) or the table as the first SELECT saw it     *)
(* (qMode = "snapshot": REPEATABLE READ).  qSnap holds what the later      *)
(* SELECTs return from that snapshot.                                      *)
(***************************************************************************)
ReadModes == {"live", "snapshot"}

Snapshot(P, mode) ==
    IF mode = "snapshot"
    THEN <<[leaf_hashes |-> LeafHashes(P), ids |-> OrderedIds(P),
            fetched |-> FetchedHashes(P)]>>
    ELSE <<>>

\* what the later SELECTs of the call return
ReadRowHashes == IF qMode = "snapshot" THEN qSnap[1].leaf_hashes ELSE LeafHashes(Patients)

ReadIds == IF qMode = "snapshot" THEN qSnap[1].ids ELSE OrderedIds(Patients)

ReadFetched == IF qMode = "snapshot" THEN qSnap[1].fetched ELSE FetchedHashes(Patients)

\* userAuth.py:249-257: SELECT ... FROM Patients WHERE id = %s
SelectPatient(patient_id, mode) ==
    /\ qPc \in {"idle", "done"}
    /\ qId' = patient_id
    /\ qMode' = mode
    /\ qSnap' = Snapshot(Patients, mode)
    /\ qLeaves' = <<>>
    /\ qIds' = <<>>
    /\ qFetched' = <<>>
    /\ IF patient_id \in DOMAIN Patients
       THEN /\ qRow' = <<Patients[patient_id]>>
            /\ qPc' = "row"
            /\ lastResult' = NoResult
            /\ response' = NoResponse
       ELSE /\ qRow' = <<>>
            /\ qPc' = "done"
            /\ lastResult' = NoResult
            /\ response' = with_proof_response(NoResult, patient_id)
    /\ UNCHANGED <<Patients, nextId, merkle_root_cache, pinnedBy, pinnedLeaves, dirty,
                   computeCalls, writeVars, merkleVars, rowVars, cipherVars>>

\* userAuth.py:276-281: SELECT row_hash FROM Patients ORDER BY id ASC
SelectRowHashes ==
    /\ qPc = "row"
    /\ qLeaves' = ReadRowHashes
    /\ IF ReadRowHashes # <<>>
       THEN /\ qPc' = "hashes"
            /\ UNCHANGED <<lastResult, response>>
       ELSE /\ qPc' = "done"
            /\ lastResult' = NoResult
            /\ response' = with_proof_response(NoResult, qId)
    /\ UNCHANGED <<qId, qMode, qSnap, qRow, qIds, qFetched>>
    /\ UNCHANGED <<Patients, nextId, merkle_root_cache, pinnedBy, pinnedLeaves, dirty,
                   computeCalls, writeVars, merkleVars, rowVars, cipherVars>>

\* userAuth.py:284-291: SELECT id FROM Patients ORDER BY id ASC and
\* ids.index(patient_id)
SelectIds ==
    /\ qPc = "hashes"
    /\ qIds' = ReadIds
    /\ IF \E k \in 1..Len(ReadIds) : ReadIds[k] = qId
       THEN /\ qPc' = "ids"
            /\ UNCHANGED <<lastResult, response>>
       ELSE /\ qPc' = "done"
            /\ lastResult' = NoResult
            /\ response' = with_proof_response(NoResult, qId)
    /\ UNCHANGED <<qId, qMode, qSnap, qRow, qLeaves, qFetched>>
    /\ UNCHANGED <<Patients, nextId, merkle_root_cache, pinnedBy, pinnedLeaves, dirty,
                   computeCalls, writeVars, merkleVars, rowVars, cipherVars>>

\* userAuth.py:293-303: the proof and the read of merkle_root_cache.  With a
\* root cached the call returns (userAuth.py:307-312) and the endpoint
\* answers (userAuth.py:438-489); with none it goes on to call
\* compute_patients_merkle_root.
GetTrustedRoot ==
    /\ qPc = "ids"
    /\ IF merkle_root_cache # <<>>
       THEN LET result == proof_result(qRow[1], qLeaves, qIds, merkle_root_cache, qId)
            IN /\ lastResult' = result
               /\ response' = with_proof_response(result, qId)
               /\ qPc' = "done"
       ELSE /\ qPc' = "compute"
            /\ UNCHANGED <<lastResult, response>>
    /\ UNCHANGED <<qId, qMode, qSnap, qRow, qLeaves, qIds, qFetched>>
    /\ UNCHANGED <<Patients, nextId, merkle_root_cache, pinnedBy, pinnedLeaves, dirty,
                   computeCalls, writeVars, merkleVars, rowVars, cipherVars>>

\* userAuth.py:305 into 174-182: the SELECT of compute_patients_merkle_root,
\* on the call's connection, whatever root has been cached meanwhile.
ComputeRootSelect ==
    /\ qPc = "compute"
    /\ qFetched' = <<ReadFetched>>
    /\ qPc' = "root"
    /\ UNCHANGED <<lastResult, response>>
    /\ UNCHANGED <<qId, qMode, qSnap, qRow, qLeaves, qIds>>
    /\ UNCHANGED <<Patients, nextId, merkle_root_cache, pinnedBy, pinnedLeaves, dirty,
                   computeCalls, writeVars, merkleVars, rowVars, cipherVars>>

\* userAuth.py:184-219 inside the call: the root of the fetched rows is
\* written to merkle_root_cache and returned; then userAuth.py:307-312 and
\* the endpoint's answer (userAuth.py:438-489).
StoreComputedRoot ==
    /\ qPc = "root"
    /\ LET root == ComputedRootHex(qFetched[1])
           result == proof_result(qRow[1], qLeaves, qIds, root, qId)
       IN /\ merkle_root_cache' = root
          /\ pinnedBy' = "query"
          /\ pinnedLeaves' = qFetched[1].leaf_hashes
          /\ dirty' = FALSE
          /\ lastResult' = result
          /\ response' = with_proof_response(result, qId)
    /\ qPc' = "done"
    /\ UNCHANGED <<qId, qMode, qSnap, qRow, qLeaves, qIds, qFetched>>
    /\ UNCHANGED <<Patients, nextId, computeCalls, writeVars, merkleVars, rowVars, cipherVars>>

\* the steps of a call that has begun
QuerySteps ==
    \/ SelectRowHashes
    \/ SelectIds
    \/ GetTrustedRoot
    \/ ComputeRootSelect
    \/ StoreComputedRoot

(***************************************************************************)
(* simulate_tampering and cleanup_test_data of test_merkle_tampering.py,   *)
(* each on a connection of its own (with app.app_context()), taken one     *)
(* statement at a time: the UPDATE or DELETE, then                         *)
(* mysql.connection.commit().  With autocommit the statement shows to the  *)
(* other connections when it is executed and the commit changes nothing;   *)
(* with a transaction it stays in wTx until the commit.  A statement or a  *)
(* commit that raises is caught (the except prints); what was not          *)
(* committed is gone when the connection closes.                           *)
(***************************************************************************)
\* UPDATE Patients SET health_history = %s WHERE id = %s: row_hash is left
\* alone
TamperRow(T, patient_id) ==
    IF patient_id \in DOMAIN T
    THEN [T EXCEPT ![patient_id].health_history = PyStr(S_TAMPERED)]
    ELSE T

\* DELETE FROM Patients WHERE first_name IN ('Alice', 'Bob', 'Carol')
DeleteTestRows(T) ==
    [i \in {j \in DOMAIN T :
               T[j].first_name \notin {PyStr(S_Alice), PyStr(S_Bob), PyStr(S_Carol)}}
       |-> T[i]]

\* mysql.connection.commit() of the function that executed the statement
CommitWrite(ok) ==
    IF Committed
    THEN UNCHANGED <<Patients, dirty, wTx>>
    ELSE /\ wTx' = <<>>
         /\ IF ok
            THEN /\ Patients' = wTx[1]
                 /\ dirty' = (dirty \/ (merkle_root_cache # <<>>
                                         /\ HashChanged(Patients, wTx[1])))
            ELSE UNCHANGED <<Patients, dirty>>

\* test_merkle_tampering.py:156-164: the UPDATE
simulate_tampering_update(patient_id, mode, ok) ==
    /\ wPc = "idle"
    /\ Committed
    /\ IF ok
       THEN /\ ExecuteWrite(TamperRow(Patients, patient_id), mode = "autocommit")
            /\ wPc' = "tamper"
            /\ wCall' = [id |-> patient_id, f |-> <<>>,
                         autocommit |-> (mode = "autocommit")]
       ELSE UNCHANGED <<Patients, dirty, writeVars>>
    /\ OtherCall
    /\ response' = NoResponse
    /\ lastResult' = NoResult
    /\ UNCHANGED <<nextId, merkle_root_cache, pinnedBy, pinnedLeaves, computeCalls,
                   merkleVars, rowVars, cipherVars>>

\* test_merkle_tampering.py:165-172: the commit
simulate_tampering_commit(ok) ==
    /\ wPc = "tamper"
    /\ CommitWrite(ok)
    /\ wPc' = "idle"
    /\ wCall' = NoCall
    /\ OtherCall
    /\ response' = NoResponse
    /\ lastResult' = NoResult
    /\ UNCHANGED <<nextId, merkle_root_cache, pinnedBy, pinnedLeaves, computeCalls,
                   merkleVars, rowVars, cipherVars>>

\* test_merkle_tampering.py:254-258: the DELETE
cleanup_test_data_delete(mode, ok) ==
    /\ wPc = "idle"
    /\ Committed
    /\ IF ok
       THEN /\ ExecuteWrite(DeleteTestRows(Patients), mode = "autocommit")
            /\ wPc' = "cleanup"
            /\ wCall' = [id |-> 0, f |-> <<>>, autocommit |-> (mode = "autocommit")]
       ELSE UNCHANGED <<Patients, dirty, writeVars>>
    /\ OtherCall
    /\ response' = NoResponse
    /\ lastResult' = NoResult
    /\ UNCHANGED <<nextId, merkle_root_cache, pinnedBy, pinnedLeaves, computeCalls,
                   merkleVars, rowVars, cipherVars>>

\* test_merkle_tampering.py:259-264: the commit
cleanup_test_data_commit(ok) ==
    /\ wPc = "cleanup"
    /\ CommitWrite(ok)
    /\ wPc' = "idle"
    /\ wCall' = NoCall
    /\ OtherCall
    /\ response' = NoResponse
    /\ lastResult' = NoResult
    /\ UNCHANGED <<nextId, merkle_root_cache, pinnedBy, pinnedLeaves, computeCalls,
                   merkleVars, rowVars, cipherVars>>

(***************************************************************************)
(* One client that makes its calls one after the other, as the process of  *)
(* test_merkle_tampering.py does: any table operation, any statement of    *)
(* which may fail, any root computation, any query, each begun when the    *)
(* call before it has returned; it commits its writes before it reads, as  *)
(* setup_test_patients does.                                               *)
(***************************************************************************)
\* the client's previous call has returned
Returned == ~QueryInFlight /\ computeCalls = EmptyBag /\ wPc = "idle"

Next ==
    \/ \E f \in PatientInputs, mode \in WriteModes, ok \in BOOLEAN :
          Returned /\ nextId <= MaxId /\ insert_patient_with_hash_insert(f, mode, ok)
    \/ \E ok \in BOOLEAN : insert_patient_with_hash_hash(ok)
    \/ \E id \in 1..MaxId, f \in PatientInputs, mode \in WriteModes, ok \in BOOLEAN :
          Returned /\ update_patient_with_hash_update(id, f, mode, ok)
    \/ \E ok \in BOOLEAN : update_patient_with_hash_hash(ok)
    \/ Returned /\ commit
    \/ Returned /\ Committed /\ compute_patients_merkle_root_select
    \/ \E fetched \in BagToSet(computeCalls) : compute_patients_merkle_root_store(fetched)
    \/ \E id \in 1..MaxId, mode \in ReadModes :
          Returned /\ Committed /\ SelectPatient(id, mode)
    \/ QuerySteps
    \/ \E id \in 1..MaxId, mode \in WriteModes, ok \in BOOLEAN :
          Returned /\ simulate_tampering_update(id, mode, ok)
    \/ \E ok \in BOOLEAN : simulate_tampering_commit(ok)
    \/ \E mode \in WriteModes, ok \in BOOLEAN :
          Returned /\ cleanup_test_data_delete(mode, ok)
    \/ \E ok \in BOOLEAN : cleanup_test_data_commit(ok)

Spec == Init /\ [][Next]_vars

(***************************************************************************)
(* The run of test_merkle_tampering.py main(): the test patients are       *)
(* inserted in order before a root is there and committed together         *)
(* (setup_test_patients), a record is tampered with only once a root is    *)
(* there; queries may come whenever nothing is uncommitted.                *)
(***************************************************************************)
NextTamperTest ==
    \/ \E mode \in WriteModes :
          /\ Returned
          /\ nextId <= TestPatients
          /\ merkle_root_cache = <<>>
          /\ insert_patient_with_hash_insert(test_patients[((nextId - 1) % 3) + 1],
                                             mode, TRUE)
    \/ insert_patient_with_hash_hash(TRUE)
    \/ Returned /\ nextId > TestPatients /\ commit
    \/ Returned /\ Committed /\ compute_patients_merkle_root_select
    \/ \E fetched \in BagToSet(computeCalls) : compute_patients_merkle_root_store(fetched)
    \/ \E id \in 1..TestPatients, mode \in ReadModes :
          Returned /\ Committed /\ SelectPatient(id, mode)
    \/ QuerySteps
    \/ \E id \in 1..TestPatients, mode \in WriteModes :
          /\ Returned
          /\ merkle_root_cache # <<>>
          /\ simulate_tampering_update(id, mode, TRUE)
    \/ simulate_tampering_commit(TRUE)
    \/ \E mode \in WriteModes : Returned /\ cleanup_test_data_delete(mode, TRUE)
    \/ cleanup_test_data_commit(TRUE)

SpecTamperTest == Init /\ [][NextTamperTest]_vars

(***************************************************************************)
(* One client as above, whose table is written only through                *)
(* insert_patient_with_hash and update_patient_with_hash calls in which    *)
(* both statements succeed (the calls return True); no statement fails and *)
(* nothing writes to the table directly.                                   *)
(***************************************************************************)
NextHashedWrites ==
    \/ \E f \in PatientInputs, mode \in WriteModes :
          Returned /\ nextId <= MaxId /\ insert_patient_with_hash_insert(f, mode, TRUE)
    \/ insert_patient_with_hash_hash(TRUE)
    \/ \E id \in 1..MaxId, f \in PatientInputs, mode \in WriteModes :
          Returned /\ update_patient_with_hash_update(id, f, mode, TRUE)
    \/ update_patient_with_hash_hash(TRUE)
    \/ Returned /\ commit
    \/ Returned /\ Committed /\ compute_patients_merkle_root_select
    \/ \E fetched \in BagToSet(computeCalls) : compute_patients_merkle_root_store(fetched)
    \/ \E id \in 1..MaxId, mode \in ReadModes :
          Returned /\ Committed /\ SelectPatient(id, mode)
    \/ QuerySteps

SpecHashedWrites == Init /\ [][NextHashedWrites]_vars

(***************************************************************************)
(* One client as above with up to MaxRows rows, whose inserts may fail in  *)
(* their second statement (the row is left without a row_hash,             *)
(* userAuth.py:123-125) and whose updates succeed; nothing writes to the   *)
(* table directly.                                                         *)
(***************************************************************************)
NextStalePin ==
    \/ \E f \in PatientInputs, mode \in WriteModes :
          Returned /\ nextId <= MaxRows /\ insert_patient_with_hash_insert(f, mode, TRUE)
    \/ \E ok \in BOOLEAN : insert_patient_with_hash_hash(ok)
    \/ \E id \in 1..MaxRows, f \in PatientInputs, mode \in WriteModes :
          Returned /\ update_patient_with_hash_update(id, f, mode, TRUE)
    \/ update_patient_with_hash_hash(TRUE)
    \/ Returned /\ commit
    \/ Returned /\ Committed /\ compute_patients_merkle_root_select
    \/ \E fetched \in BagToSet(computeCalls) : compute_patients_merkle_root_store(fetched)
    \/ \E id \in 1..MaxRows, mode \in ReadModes :
          Returned /\ Committed /\ SelectPatient(id, mode)
    \/ QuerySteps

SpecStalePin == Init /\ [][NextStalePin]_vars

(***************************************************************************)
(* Clients at once: the statements of one writing connection (successful   *)
(* inserts and updates, its commits, deletes) around the statements of one *)
(* get_patient_with_proof call of another connection.                      *)
(***************************************************************************)
NextInterleaved ==
    \/ \E f \in PatientInputs, mode \in WriteModes :
          nextId <= MaxId /\ insert_patient_with_hash_insert(f, mode, TRUE)
    \/ insert_patient_with_hash_hash(TRUE)
    \/ \E id \in 1..MaxId, f \in PatientInputs, mode \in WriteModes :
          update_patient_with_hash_update(id, f, mode, TRUE)
    \/ update_patient_with_hash_hash(TRUE)
    \/ commit
    \/ \E mode \in WriteModes : cleanup_test_data_delete(mode, TRUE)
    \/ cleanup_test_data_commit(TRUE)
    \/ \E id \in 1..MaxId, mode \in ReadModes : SelectPatient(id, mode)
    \/ QuerySteps

SpecInterleaved == Init /\ [][NextInterleaved]_vars

(***************************************************************************)
(* The field cipher (crypto_helpers.py).  The plaintext is the JSON text   *)
(* json.dumps gives for {"gender": gender, "age": int(age)}; JSON strings  *)
(* are sequences of code points.  AES-GCM is modelled as an ideal          *)
(* authenticated cipher: a ciphertext is an opaque item that records the   *)
(* key, the nonce and the plaintext it was made from and the bits flipped  *)
(* in it since; it decrypts exactly when nothing was flipped and key and   *)
(* nonce are the ones it was made with.                                    *)
(***************************************************************************)
Hex4(n) ==
    <<HexDigit(n \div 4096), HexDigit((n \div 256) % 16),
      HexDigit((n \div 16) % 16), HexDigit(n % 16)>>

\* json.dumps of one character of a str (ensure_ascii=True)
JsonEscapeChar(cp) ==
    CASE cp = 34 -> <<92, 34>>
      [] cp = 92 -> <<92, 92>>
      [] cp = 8 -> <<92, 98>>
      [] cp = 12 -> <<92, 102>>
      [] cp = 10 -> <<92, 110>>
      [] cp = 13 -> <<92, 114>>
      [] cp = 9 -> <<92, 116>>
      [] OTHER ->
           IF cp >= 32 /\ cp <= 126 THEN <<cp>>
           ELSE IF cp < 65536 THEN <<92, 117>> \o Hex4(cp)
           ELSE <<92, 117>> \o Hex4(55296 + ((cp - 65536) \div 1024))
                \o <<92, 117>> \o Hex4(56320 + ((cp - 65536) % 1024))

RECURSIVE JsonEscape(_)
JsonEscape(cs) ==
    IF cs = <<>> THEN <<>> ELSE JsonEscapeChar(cs[1]) \o JsonEscape(Tail(cs))

\* {"gender": "   and   , "age":    as code points
JsonHead == <<123, 34, 103, 101, 110, 100, 101, 114, 34, 58, 32, 34>>
JsonMid == <<44, 32, 34, 97, 103, 101, 34, 58, 32>>
JsonEnd == <<125>>

\* crypto_helpers.py:19  json.dumps({"gender": gender, "age": int(age)})
json_dumps(gender, age) ==
    JsonHead \o JsonEscape(gender) \o <<34>> \o JsonMid \o StrInt(age) \o JsonEnd

IsHexDigit(c) == c \in (48..57) \cup (97..102) \cup (65..70)

JsonHexVal(c) == IF c >= 97 THEN c - 87 ELSE IF c >= 65 THEN c - 55 ELSE c - 48

\* the four hex digits at cs[i..i+3], -1 when they are not there
HexAt(cs, i) ==
    IF Len(cs) >= i + 3 /\ \A k \in i..(i + 3) : IsHexDigit(cs[k])
    THEN 4096 * JsonHexVal(cs[i]) + 256 * JsonHexVal(cs[i + 1])
         + 16 * JsonHexVal(cs[i + 2]) + JsonHexVal(cs[i + 3])
    ELSE -1

ScanError == [ok |-> FALSE, val |-> <<>>, rest |-> <<>>]

\* json.decoder scanstring, one character or escape at the head of cs: a
\* \uXXXX high surrogate followed by a \uXXXX low surrogate is one character.
NextUnit(cs) ==
    IF cs[1] # 92
    THEN [ok |-> cs[1] >= 32, cp |-> cs[1], used |-> 1]
    ELSE IF Len(cs) < 2 THEN [ok |-> FALSE, cp |-> 0, used |-> 1]
    ELSE CASE cs[2] \in {34, 92, 47} -> [ok |-> TRUE, cp |-> cs[2], used |-> 2]
           [] cs[2] = 98 -> [ok |-> TRUE, cp |-> 8, used |-> 2]
           [] cs[2] = 102 -> [ok |-> TRUE, cp |-> 12, used |-> 2]
           [] cs[2] = 110 -> [ok |-> TRUE, cp |-> 10, used |-> 2]
           [] cs[2] = 114 -> [ok |-> TRUE, cp |-> 13, used |-> 2]
           [] cs[2] = 116 -> [ok |-> TRUE, cp |-> 9, used |-> 2]
           [] cs[2] = 117 ->
                LET uni == HexAt(cs, 3)
                    uni2 == IF Len(cs) >= 8 /\ cs[7] = 92 /\ cs[8] = 117
                            THEN HexAt(cs, 9) ELSE -1
                IN IF uni < 0 THEN [ok |-> FALSE, cp |-> 0, used |-> 2]
                   ELSE IF uni >= 55296 /\ uni <= 56319 /\ uni2 >= 56320 /\ uni2 <= 57343
                   THEN [ok |-> TRUE,
                         cp |-> 65536 + (uni - 55296) * 1024 + (uni2 - 56320),
                         used |-> 12]
                   ELSE [ok |-> TRUE, cp |-> uni, used |-> 6]
           [] OTHER -> [ok |-> FALSE, cp |-> 0, used |-> 2]

\* the string that starts at cs (after its opening quote) and what follows it
RECURSIVE scanstring(_)
scanstring(cs) ==
    IF cs = <<>> THEN ScanError
    ELSE IF cs[1] = 34 THEN [ok |-> TRUE, val |-> <<>>, rest |-> Tail(cs)]
    ELSE LET unit == NextUnit(cs)
         IN IF ~unit.ok THEN ScanError
            ELSE LET more == scanstring(SubSeq(cs, unit.used + 1, Len(cs)))
                 IN IF ~more.ok THEN ScanError
                    ELSE [ok |-> TRUE, val |-> <<unit.cp>> \o more.val,
                          rest |-> more.rest]

RECURSIVE DigitRun(_)
DigitRun(cs) ==
    IF cs # <<>> /\ cs[1] \in 48..57 THEN 1 + DigitRun(Tail(cs)) ELSE 0

RECURSIVE DigitsValue(_)
DigitsValue(ds) ==
    IF ds = <<>> THEN 0 ELSE 10 * DigitsValue(SubSeq(ds, 1, Len(ds) - 1)) + (ds[Len(ds)] - 48)

\* a JSON integer at the head of cs and what follows it
scan_int(cs) ==
    LET neg == cs # <<>> /\ cs[1] = 45
        body == IF neg THEN Tail(cs) ELSE cs
        n == DigitRun(body)
    IN IF n = 0 \/ (n > 1 /\ body[1] = 48)
       THEN [ok |-> FALSE, val |-> 0, rest |-> <<>>]
       ELSE [ok |-> TRUE,
             val |-> IF neg THEN -DigitsValue(SubSeq(body, 1, n))
                     ELSE DigitsValue(SubSeq(body, 1, n)),
             rest |-> SubSeq(body, n + 1, Len(body))]

StartsWith(cs, head) == Len(cs) >= Len(head) /\ SubSeq(cs, 1, Len(head)) = head

Drop(cs, n) == SubSeq(cs, n + 1, Len(cs))

\* crypto_helpers.py:30 json.loads, for texts of the shape json_dumps writes
json_loads(cs) ==
    IF ~StartsWith(cs, JsonHead) THEN [ok |-> FALSE, gender |-> <<>>, age |-> 0]
    ELSE LET g == scanstring(Drop(cs, Len(JsonHead)))
         IN IF ~g.ok \/ ~StartsWith(g.rest, JsonMid)
            THEN [ok |-> FALSE, gender |-> <<>>, age |-> 0]
            ELSE LET a == scan_int(Drop(g.rest, Len(JsonMid)))
                 IN IF ~a.ok \/ a.rest # JsonEnd
                    THEN [ok |-> FALSE, gender |-> <<>>, age |-> 0]
                    ELSE [ok |-> TRUE, gender |-> g.val, age |-> a.val]

\* bytes.decode("utf-8") for one- and two-byte sequences
RECURSIVE Utf8Decode(_)
Utf8Decode(bs) ==
    IF bs = <<>> THEN <<>>
    ELSE IF bs[1] < 128 THEN <<bs[1]>> \o Utf8Decode(Tail(bs))
    ELSE <<(bs[1] - 192) * 64 + (bs[2] - 128)>> \o Utf8Decode(Tail(Tail(bs)))

\* crypto_helpers.py:7-10, the key loaded from the environment
KEY == "GENDER_AGE_KEY"

\* os.urandom(12): the nonce is one of the values the generator may give
NoncePool == {"nonce_1", "nonce_2"}

FreshNonce(drawn) == [id |-> drawn, flipped |-> {}]

\* AESGCM(key).encrypt(nonce, plaintext, None): ciphertext and tag
AESGCM_encrypt(key, nonce, plaintext) ==
    [key |-> key, nonce |-> nonce, pt |-> plaintext, flipped |-> {}]

\* AESGCM(key).decrypt(nonce, ciphertext, None); ok = FALSE is InvalidTag.
\* The mutant does not bind the nonce.
AESGCM_decrypt_any_nonce(key, nonce, ciphertext) ==
    IF ciphertext.flipped = {} /\ ciphertext.key = key
    THEN [ok |-> TRUE, pt |-> ciphertext.pt]
    ELSE [ok |-> FALSE, pt |-> <<>>]

AESGCM_decrypt(key, nonce, ciphertext) ==
    IF ciphertext.flipped = {} /\ ciphertext.key = key /\ ciphertext.nonce = nonce
    THEN [ok |-> TRUE, pt |-> ciphertext.pt]
    ELSE [ok |-> FALSE, pt |-> <<>>]

\* crypto_helpers.py encrypt_gender_age; drawn is what os.urandom returned
encrypt_gender_age(gender, age, drawn) ==
    LET nonce == FreshNonce(drawn)
        plaintext == Utf8(json_dumps(gender, age))
    IN [nonce |-> nonce, ciphertext |-> AESGCM_encrypt(KEY, nonce, plaintext)]

\* crypto_helpers.py decrypt_gender_age; raised = TRUE when an exception
\* leaves the function.
decrypt_gender_age(nonce, ciphertext) ==
    LET d == AESGCM_decrypt(KEY, nonce, ciphertext)
        obj == json_loads(Utf8Decode(d.pt))
    IN IF ~d.ok \/ ~obj.ok
       THEN [raised |-> TRUE, some |-> FALSE, gender |-> <<>>, age |-> 0]
       ELSE [raised |-> FALSE, some |-> TRUE, gender |-> obj.gender, age |-> obj.age]

(***************************************************************************)
(* One run of the cipher: a gender string and an age are encrypted, bits   *)
(* of the stored nonce or ciphertext may get flipped, and the result is    *)
(* handed to decrypt_gender_age.  The characters drawn are F, the quote,   *)
(* the backslash, e-acute, and the two surrogate code points of U+1F600.   *)
(***************************************************************************)
GenderChars == {70, 34, 92, 233, 55357, 56832}

AgePool == {-1, 0, 28}

\* the bits that may get flipped: the first and the last bit of the nonce,
\* the first bit of the ciphertext and the last bit of its tag
FlipTargets ==
    {[field |-> "nonce", bit |-> "first"], [field |-> "nonce", bit |-> "last"],
     [field |-> "ciphertext", bit |-> "first"], [field |-> "ciphertext", bit |-> "last"]}

\* flipping a bit twice restores it
Toggle(S, x) == IF x \in S THEN S \ {x} ELSE S \cup {x}

InitCipher ==
    /\ cGender \in SeqsUpTo(GenderChars, MaxGender)
    /\ cAge \in AgePool
    /\ cNonce = <<>> /\ cCiphertext = <<>>
    /\ cOut = NoOutput /\ cPc = "start"
    /\ MerkleIdle
    /\ RowIdle
    /\ DbIdle

Encrypt(drawn) ==
    /\ cPc = "start"
    /\ LET bundle == encrypt_gender_age(cGender, cAge, drawn)
       IN /\ cNonce' = <<bundle.nonce>>
          /\ cCiphertext' = <<bundle.ciphertext>>
    /\ cPc' = "encrypted"
    /\ UNCHANGED <<cGender, cAge, cOut, merkleVars, rowVars, dbVars>>

FlipBit(target) ==
    /\ cPc = "encrypted"
    /\ IF target.field = "nonce"
       THEN /\ cNonce' = <<[cNonce[1] EXCEPT !.flipped = Toggle(@, target.bit)]>>
            /\ UNCHANGED cCiphertext
       ELSE /\ cCiphertext' = <<[cCiphertext[1] EXCEPT !.flipped = Toggle(@, target.bit)]>>
            /\ UNCHANGED cNonce
    /\ UNCHANGED <<cGender, cAge, cOut, cPc, merkleVars, rowVars, dbVars>>

Decrypt ==
    /\ cPc = "encrypted"
    /\ cOut' = decrypt_gender_age(cNonce[1], cCiphertext[1])
    /\ cPc' = "decrypted"
    /\ UNCHANGED <<cGender, cAge, cNonce, cCiphertext, merkleVars, rowVars, dbVars>>

NextCipher ==
    \/ \E drawn \in NoncePool : Encrypt(drawn)
    \/ \E target \in FlipTargets : FlipBit(target)
    \/ Decrypt

SpecCipher == InitCipher /\ [][NextCipher]_vars

(***************************************************************************)
(* C1  Completeness of proofs: for every non-empty leaf list and every     *)
(* valid index i, verify_proof(leaves[i], get_proof(leaves, i),            *)
(* build_root_from_hashes(leaves)) is True.                                *)
(***************************************************************************)
C1_Completeness ==
    (/\ vPc = "verified"
     /\ vSuffix = 0
     /\ vCand = vLeaves[vIndex + 1])
    => vVerdict = TRUE

\* an odd list, the last (unpaired) leaf
C1_Witness ==
    /\ vPc = "verified" /\ vSuffix = 0
    /\ Len(vLeaves) = 3 /\ vIndex = 2
    /\ vCand = vLeaves[3]
    /\ vVerdict = TRUE

(***************************************************************************)
(* Helpers of the claims about the table.                                  *)
(***************************************************************************)
\* The verdict of verify_proof on what a query returned.
ProofVerdict(result) ==
    verify_proof(hex_to_bytes(result.row_hash), ProofFromHex(result.proof),
                 hex_to_bytes(result.merkle_root))

\* The stored hash of row id is the hash of its stored fields.
RowConsistent(P, id) ==
    /\ P[id].row_hash # NullHash
    /\ bytes_to_hex(P[id].row_hash) = compute_patient_row_hash(PatientDict(id, P[id]))

\* A get_patient_with_proof call has just answered with a result.
Queried == qPc = "done" /\ response.op = "with_proof" /\ lastResult.some

(***************************************************************************)
(* C2  As claimed: the merkle_root a query hands out was pinned by an      *)
(* earlier explicit compute_patients_merkle_root call, never computed from *)
(* the live table during the query.                                        *)
(***************************************************************************)
C2_RootPinnedExplicitly ==
    lastResult.some => pinnedBy = "explicit"

(***************************************************************************)
(* C3  The tamper scenario: records 1, 2, 3 inserted and hashed, a root R  *)
(* pinned over them, then a stored field of record 2 changed directly.     *)
(* As claimed: the proof of record 2 then fails verify_proof against R     *)
(* while the proofs of records 1 and 3 verify.                             *)
(***************************************************************************)
TamperScenario ==
    /\ DOMAIN Patients = {1, 2, 3}
    /\ pinnedBy = "explicit"
    /\ pinnedLeaves = LeafHashes(Patients)
    /\ Len(pinnedLeaves) = 3
    /\ RowConsistent(Patients, 1)
    /\ RowConsistent(Patients, 3)
    /\ Patients[2].row_hash # NullHash
    /\ Patients[2].health_history # test_patients[2].health_history
    /\ Queried

C3_TamperedProofFails ==
    TamperScenario =>
        /\ response.patient_id = 2 => ~ProofVerdict(lastResult)
        /\ response.patient_id \in {1, 3} => ProofVerdict(lastResult)

(***************************************************************************)
(* C3 amended: in the tamper scenario the check of record 2 fails because  *)
(* the hash recomputed from its stored fields no longer equals its stored  *)
(* row_hash (the data-versus-hash comparison), while verify_proof of the   *)
(* stored row_hash with the recomputed proof still succeeds against R;     *)
(* records 1 and 3 pass both the comparison and verify_proof.              *)
(***************************************************************************)
C3_TamperCaughtByHashComparison ==
    TamperScenario =>
        /\ response.patient_id = 2 =>
              /\ response.status = 400 /\ response.kind = "breach"
              /\ compute_patient_row_hash(lastResult.patient) # lastResult.row_hash
              /\ ProofVerdict(lastResult)
        /\ response.patient_id \in {1, 3} =>
              /\ response.status = 200 /\ response.verified
              /\ ProofVerdict(lastResult)

C3_Witness ==
    /\ TamperScenario
    /\ response.patient_id = 2
    /\ response.kind = "breach"

(***************************************************************************)
(* C4  A root R is pinned, then exactly one record i gets a field changed  *)
(* and its row hash recomputed and stored, without re-pinning.             *)
(* As claimed: checking every record against R flags record i and no other *)
(* record.                                                                 *)
(***************************************************************************)
OneRecordRehashed(i) ==
    LET live == LeafHashes(Patients)
    IN /\ merkle_root_cache # <<>>
       /\ dirty
       /\ i \in DOMAIN Patients
       /\ RowConsistent(Patients, i)
       /\ Len(pinnedLeaves) = Len(live)
       /\ \E k \in 1..Len(live) :
             /\ live[k] = Patients[i].row_hash
             /\ \A j \in 1..Len(live) : (pinnedLeaves[j] # live[j]) <=> (j = k)
             /\ \E f \in PatientInputs :
                   pinnedLeaves[k] = hex_to_bytes(compute_patient_row_hash(PatientDict(i, f)))

C4_FlagsExactlyTheChangedRecord ==
    \A i \in DOMAIN Patients :
        (OneRecordRehashed(i) /\ Queried)
        => ((response.status # 200) <=> (response.patient_id = i))

(***************************************************************************)
(* C5  As claimed: once a root is pinned, after an insert or update that   *)
(* changed a stored row hash and until the root is computed again, every   *)
(* verification against the pinned root reports a mismatch, for every      *)
(* record.  Stated for the case in which the change is still there: the    *)
(* stored row hashes are not the ones the root was computed over.          *)
(***************************************************************************)
C5_MismatchUntilRepinned ==
    (/\ merkle_root_cache # <<>>
     /\ dirty
     /\ LeafHashes(Patients) # pinnedLeaves
     /\ Queried)
    => response.status # 200

(***************************************************************************)
(* C6  The with_proof endpoint returns patient data (200, verified) only   *)
(* when the hash recomputed from the returned fields equals the stored     *)
(* row_hash and verify_proof of that row_hash with the generated proof     *)
(* succeeds against the trusted root; in every other case it returns an    *)
(* error status and no patient data.                                       *)
(***************************************************************************)
BothChecksPass ==
    LET id == response.patient_id
    IN /\ lastResult.some
       /\ id \in DOMAIN Patients
       /\ Patients[id].row_hash # NullHash
       /\ compute_patient_row_hash(lastResult.patient) = bytes_to_hex(Patients[id].row_hash)
       /\ verify_proof(Patients[id].row_hash, ProofFromHex(lastResult.proof),
                       hex_to_bytes(merkle_root_cache))

C6_DataOnlyWhenBothChecksPass ==
    (qPc = "done" /\ response.op = "with_proof") =>
        /\ (response.status = 200) <=> BothChecksPass
        /\ response.status = 200 =>
              /\ response.verified
              /\ response.patient =
                    <<PatientDict(response.patient_id, Patients[response.patient_id])>>
        /\ response.status # 200 =>
              /\ response.status \in {400, 404, 500}
              /\ response.patient = <<>>
              /\ ~response.verified

C6_Witness ==
    /\ qPc = "done"
    /\ response.op = "with_proof"
    /\ response.status = 200
    /\ Cardinality(DOMAIN Patients) = 2
    /\ BothChecksPass

(***************************************************************************)
(* C7  As claimed: the leaf array holds exactly one digest per record, at  *)
(* the record's rank in id order, so the index a query passes to get_proof *)
(* designates the queried patient's own row_hash.                          *)
(***************************************************************************)
C7_IndexDesignatesOwnLeaf ==
    Queried =>
        LET lh == LeafHashes(Patients)
            id == response.patient_id
        IN /\ Len(lh) = Cardinality(DOMAIN Patients)
           /\ lh[PatientIndex(Patients, id) + 1] = Patients[id].row_hash

(***************************************************************************)
(* C8  As claimed: for a tree with at least two leaves, verify_proof of an *)
(* internal node value v with any proof (any suffix of a genuine proof)    *)
(* against the root is False.                                              *)
(***************************************************************************)
C8_InternalNodeNeverVerifies ==
    (/\ vPc = "verified"
     /\ Len(vLeaves) >= 2
     /\ vCand \in InternalNodes(vLeaves))
    => vVerdict = FALSE

(***************************************************************************)
(* C8 amended: verify_proof(v, suffix, root) of an internal node v is True *)
(* exactly when the suffix is the part of a genuine proof that starts at   *)
(* the level where v is the node on that leaf's path; with any other       *)
(* suffix, the full proof of a leaf included, it is False.                 *)
(***************************************************************************)
C8_InternalNodeVerifiesOnlyAtItsLevel ==
    (/\ vPc = "verified"
     /\ Len(vLeaves) >= 2
     /\ vCand \in InternalNodes(vLeaves))
    => /\ vVerdict = (vCand = PathNode(vLeaves, vIndex, vSuffix))
       /\ vSuffix = 0 => vVerdict = FALSE

C8_Witness ==
    /\ vPc = "verified"
    /\ Len(vLeaves) = 3
    /\ vCand \in InternalNodes(vLeaves)
    /\ vSuffix = 1
    /\ vCand # vRoot
    /\ vVerdict = TRUE

(***************************************************************************)
(* C9  As claimed: two field lists of the same length that differ in at    *)
(* least one string value serialize to different byte strings and get      *)
(* different leaf hashes.                                                  *)
(***************************************************************************)
AllStr(values) == \A i \in 1..Len(values) : values[i].t = "str"

C9_SerializationInjective ==
    (/\ rPc = "hashed"
     /\ AllStr(rA) /\ AllStr(rB)
     /\ Len(rA) = Len(rB)
     /\ rA # rB)
    => (rSerA # rSerB /\ rHashA # rHashB)

(***************************************************************************)
(* C10  As claimed: two field lists that differ only by None versus '' at  *)
(* one position serialize to different hash inputs.                        *)
(***************************************************************************)
DifferOnlyAt(a, b, p, x, y) ==
    /\ Len(a) = Len(b)
    /\ p \in 1..Len(a)
    /\ a[p] = x /\ b[p] = y
    /\ \A i \in 1..Len(a) : i # p => a[i] = b[i]

C10_NoneDistinctFromEmpty ==
    (/\ rPc = "hashed"
     /\ \E p \in 1..Len(rA) : DifferOnlyAt(rA, rB, p, PyNone, PyStr(<<>>)))
    => rSerA # rSerB

(***************************************************************************)
(* C10 amended: None is serialized as the empty string, so two field lists *)
(* that differ only by None versus '' at one position serialize to the     *)
(* same hash input and get the same leaf hash; None does not serialize as  *)
(* the text 'None'.                                                        *)
(***************************************************************************)
C10_NoneSerializedAsEmpty ==
    rPc = "hashed" =>
      /\ (\E p \in 1..Len(rA) : DifferOnlyAt(rA, rB, p, PyNone, PyStr(<<>>)))
            => (rSerA = rSerB /\ rHashA = rHashB)
      /\ (\E p \in 1..Len(rA) : DifferOnlyAt(rA, rB, p, PyNone, PyStr(S_None)))
            => (rSerA # rSerB /\ rHashA # rHashB)

C10_Witness ==
    /\ rPc = "hashed"
    /\ rA = <<PyStr(S_a), PyNone>>
    /\ rB = <<PyStr(S_a), PyStr(<<>>)>>
    /\ rSerA = rSerB

(***************************************************************************)
(* C11  As claimed: a bytes-typed field value b is embedded verbatim in    *)
(* the leaf hash input: the segment compute_row_hash contributes for b is  *)
(* exactly b, with the same length and the same byte values.               *)
(***************************************************************************)
C11_BytesEmbeddedVerbatim ==
    (/\ rPc = "hashed"
     /\ Len(rA) = 1
     /\ rA[1].t = "bytes")
    => rSerA = rA[1].s

(***************************************************************************)
(* C12  As claimed: gender and age are never stored unencrypted: after any *)
(* insert_patient_with_hash or update_patient_with_hash no row of the      *)
(* table holds the gender or the age the caller passed; the row holds only *)
(* the nonce and ciphertext bytes of encrypt_gender_age.                   *)
(***************************************************************************)
PlaintextInputs == PatientInputs \cup {test_patients[k] : k \in 1..Len(test_patients)}

C12_SensitiveFieldsStoredEncrypted ==
    \A id \in DOMAIN Patients :
        /\ Patients[id].gender.t = "bytes"
        /\ Patients[id].age.t = "bytes"
        /\ \A f \in PlaintextInputs :
              Patients[id].gender # f.gender /\ Patients[id].age # f.age

(***************************************************************************)
(* C13  build_root_from_hashes([]) is the SHA-256 of zero bytes, and the   *)
(* root compute_patients_merkle_root computes for an empty table is that   *)
(* constant whatever records the table held before.                        *)
(***************************************************************************)
C13_EmptyTableRootIsConstant ==
    [][\A fetched \in BagToSet(computeCalls) :
          (compute_patients_merkle_root_store(fetched) /\ fetched.no_rows)
          => merkle_root_cache' = bytes_to_hex(sha256(<<>>))]_vars

\* records were inserted and deleted, then the root was computed
C13_Witness ==
    /\ DOMAIN Patients = {}
    /\ nextId > 1
    /\ pinnedBy = "explicit"
    /\ pinnedLeaves = <<>>
    /\ merkle_root_cache = bytes_to_hex(build_root_from_hashes(<<>>))

(***************************************************************************)
(* C14  build_root_from_hashes of a single-element list [x] performs no    *)
(* pairing and returns x itself, the leaf hash of that one record (whose   *)
(* hashed input starts with the leaf prefix 0x00).                         *)
(***************************************************************************)
C14_SingleLeafRootIsLeaf ==
    (vPc # "start" /\ vPc # "idle" /\ Len(vLeaves) = 1)
    => /\ vRoot = vLeaves[1]
       /\ vRoot[1].k = "dig"
       /\ vRoot[1].pre[1].b[1] = 0

C14_Witness ==
    /\ vPc = "built"
    /\ Len(vLeaves) = 1
    /\ vRoot = compute_row_hash(<<PyInt(1)>>)

(***************************************************************************)
(* C15  For every odd-length leaf list (length >= 3) the root equals the   *)
(* reference computation: at every level holding an odd number of nodes    *)
(* the last node is paired with a copy of itself as right sibling, and all *)
(* other nodes are paired left to right.                                   *)
(***************************************************************************)
\* The reference: pad an odd level with a copy of its last node, then pair.
RefPad(level) ==
    IF Len(level) % 2 = 1 THEN Append(level, level[Len(level)]) ELSE level

RefPair(level) ==
    [k \in 1..(Len(level) \div 2) |-> node_hash(level[2 * k - 1], level[2 * k])]

RECURSIVE RefRoot(_)
RefRoot(level) ==
    IF Len(level) = 1 THEN level[1] ELSE RefRoot(RefPair(RefPad(level)))

C15_OddListDuplicatesLast ==
    (vPc # "start" /\ vPc # "idle" /\ Len(vLeaves) >= 3 /\ Len(vLeaves) % 2 = 1)
    => /\ vRoot = RefRoot(vLeaves)
       /\ Len(vLeaves) = 3 =>
             vRoot = node_hash(node_hash(vLeaves[1], vLeaves[2]),
                               node_hash(vLeaves[3], vLeaves[3]))

C15_Witness ==
    /\ vPc = "built"
    /\ Len(vLeaves) = 3
    /\ vLeaves[1] # vLeaves[2] /\ vLeaves[2] # vLeaves[3]
    /\ vRoot = node_hash(node_hash(vLeaves[1], vLeaves[2]),
                         node_hash(vLeaves[3], vLeaves[3]))

(***************************************************************************)
(* C16  get_proof raises IndexError, and returns no proof, for every index *)
(* outside [0, len(leaves)): negative indices, index = len(leaves), every  *)
(* index when leaves is empty; for every index inside the range it returns *)
(* a proof without raising.                                                *)
(***************************************************************************)
C16_IndexErrorOutsideRange ==
    (vPc = "proved" \/ vPc = "verified")
    => /\ vProof.raised <=> (vIndex < 0 \/ vIndex >= Len(vLeaves))
       /\ vLeaves = <<>> => vProof.raised
       /\ vProof.raised => vProof.proof = <<>>

\* index = len(leaves)
C16_Witness ==
    /\ vPc = "proved"
    /\ Len(vLeaves) = 2
    /\ vIndex = 2
    /\ vProof.raised

(***************************************************************************)
(* C17  verify_proof folds the pairs in order from the leaf digest:        *)
(* node_hash(sibling, cur) when is_left is True, node_hash(cur, sibling)   *)
(* otherwise; it returns True exactly when the final value equals root and *)
(* False in every other case, an empty proof with leaf # root included.    *)
(***************************************************************************)
FoldStep(cur, pair) ==
    IF pair.is_left THEN node_hash(pair.sibling, cur) ELSE node_hash(cur, pair.sibling)

\* the value after the first n pairs
RECURSIVE FoldedAfter(_, _, _)
FoldedAfter(leaf_hash, proof, n) ==
    IF n = 0 THEN leaf_hash
    ELSE FoldStep(FoldedAfter(leaf_hash, proof, n - 1), proof[n])

VerifiedSuffix == SubSeq(vProof.proof, vSuffix + 1, Len(vProof.proof))

C17_VerdictIsFoldEqualsRoot ==
    vPc = "verified"
    => /\ vVerdict \in BOOLEAN
       /\ vVerdict <=> (FoldedAfter(vCand, VerifiedSuffix, Len(VerifiedSuffix)) = vRoot)
       /\ VerifiedSuffix = <<>> => (vVerdict <=> (vCand = vRoot))
       /\ Len(VerifiedSuffix) = 1 =>
             (vVerdict <=> (FoldStep(vCand, VerifiedSuffix[1]) = vRoot))

\* an empty proof with a leaf that is not the root
C17_Witness ==
    /\ vPc = "verified"
    /\ Len(vLeaves) >= 2
    /\ VerifiedSuffix = <<>>
    /\ vCand = vLeaves[1]
    /\ vCand # vRoot
    /\ vVerdict = FALSE

(***************************************************************************)
(* C18  In a proof of get_proof the pair recorded at each level is the     *)
(* sibling of the path node, with flag True when the sibling is the left   *)
(* child and False when it is the right child; when the path node is the   *)
(* last, unpaired element of its level the recorded sibling is the path    *)
(* node's own digest and the flag is False.                                *)
(***************************************************************************)
\* 0-based position of the path node of leaf `index` at level l (0 = leaves)
PathPos(index, l) == index \div (2 ^ l)

C18_PairIsSiblingWithSide ==
    ((vPc = "proved" \/ vPc = "verified") /\ ~vProof.raised)
    => LET levels == BuildLevels(<<vLeaves>>)
       IN \A l \in 1..Len(vProof.proof) :
             LET level == levels[l]
                 pos == PathPos(vIndex, l - 1)
                 pair == vProof.proof[l]
             IN /\ level[pos + 1] = PathNode(vLeaves, vIndex, l - 1)
                /\ pos % 2 = 1 =>
                      pair = [sibling |-> level[pos], is_left |-> TRUE]
                /\ (pos % 2 = 0 /\ pos + 1 < Len(level)) =>
                      pair = [sibling |-> level[pos + 2], is_left |-> FALSE]
                /\ (pos % 2 = 0 /\ pos + 1 = Len(level)) =>
                      pair = [sibling |-> level[pos + 1], is_left |-> FALSE]

\* the last leaf of three is unpaired: its own digest, on the right
C18_Witness ==
    /\ vPc = "proved"
    /\ ~vProof.raised
    /\ Len(vLeaves) = 3
    /\ vIndex = 2
    /\ vProof.proof[1] = [sibling |-> vLeaves[3], is_left |-> FALSE]
    /\ vProof.proof[2].is_left = TRUE

(***************************************************************************)
(* C19  A proof of get_proof has one pair per tree level below the root:   *)
(* for n leaves its length is the number of halving rounds of              *)
(* build_root_from_hashes, ceil(log2 n), the same for every index, and it  *)
(* is empty when n = 1.                                                    *)
(***************************************************************************)
\* the least k with 2^k >= n
CeilLog2(n) == CHOOSE k \in 0..n : 2 ^ k >= n /\ \A j \in 0..(k - 1) : 2 ^ j < n

\* the halving rounds (Len -> (Len + 1) \div 2) that bring n nodes down to one
RECURSIVE HalvingRounds(_)
HalvingRounds(n) == IF n > 1 THEN 1 + HalvingRounds((n + 1) \div 2) ELSE 0

C19_ProofLengthIsTreeHeight ==
    ((vPc = "proved" \/ vPc = "verified") /\ ~vProof.raised)
    => /\ Len(vProof.proof) = CeilLog2(Len(vLeaves))
       /\ Len(vProof.proof) = HalvingRounds(Len(vLeaves))
       /\ \A i \in 0..(Len(vLeaves) - 1) :
             Len(get_proof(vLeaves, i).proof) = Len(vProof.proof)
       /\ Len(vLeaves) = 1 => vProof.proof = <<>>

C19_Witness ==
    /\ vPc = "proved"
    /\ ~vProof.raised
    /\ Len(vLeaves) = 3
    /\ vIndex = 2
    /\ Len(vProof.proof) = 2

(***************************************************************************)
(* C20  The root changes whenever a leaf or the leaf order changes: with   *)
(* the hash collision-free, replacing any one leaf by a different digest,  *)
(* or swapping two leaves that hold different digests, makes               *)
(* build_root_from_hashes return a different root.                         *)
(***************************************************************************)
C20_RootChangesWithLeafOrOrder ==
    (vPc = "compared"
     /\ (OneLeafReplaced(vLeaves, vLeavesB) \/ TwoLeavesSwapped(vLeaves, vLeavesB)))
    => vRoot # vRootB

\* the unpaired last leaf of three swapped with the first
C20_Witness ==
    /\ vPc = "compared"
    /\ Len(vLeaves) = 3
    /\ TwoLeavesSwapped(vLeaves, vLeavesB)
    /\ vLeavesB[1] = vLeaves[3] /\ vLeavesB[3] = vLeaves[1]
    /\ vRoot # vRootB

(***************************************************************************)
(* C21  As claimed: one get_patient_with_merkle_proof call works on a      *)
(* single consistent snapshot: even when writes of other clients come      *)
(* between its SELECTs, the patient row, the leaf array and the id list it *)
(* uses describe the same table state.  In one table state there are no    *)
(* more row hashes than ids, the row hash of the patient row is among the  *)
(* leaves, and a patient row without a row hash leaves fewer leaves than   *)
(* ids.                                                                    *)
(***************************************************************************)
C21_SingleConsistentSnapshot ==
    (qPc = "done" /\ lastResult.some)
    => /\ Len(qLeaves) <= Len(qIds)
       /\ qRow[1].row_hash # NullHash =>
             \E k \in 1..Len(qLeaves) : qLeaves[k] = qRow[1].row_hash
       /\ qRow[1].row_hash = NullHash => Len(qLeaves) < Len(qIds)

(***************************************************************************)
(* C22  As claimed: cipher round trip: for every gender string and every   *)
(* integer age, decrypt_gender_age applied to the nonce and ciphertext of  *)
(* encrypt_gender_age(gender, age) returns exactly (gender, age), for      *)
(* every nonce the encryption may draw.                                    *)
(***************************************************************************)
Untouched == cNonce[1].flipped = {} /\ cCiphertext[1].flipped = {}

C22_CipherRoundTrip ==
    (cPc = "decrypted" /\ Untouched)
    => /\ ~cOut.raised
       /\ cOut.gender = cGender
       /\ cOut.age = cAge

(***************************************************************************)
(* C23  For any (nonce, ciphertext) produced by encrypt_gender_age,        *)
(* decrypt_gender_age called with a nonce or a ciphertext that differs in  *)
(* any bit fails with an error raised to the caller and never returns a    *)
(* (gender, age) value.                                                    *)
(***************************************************************************)
C23_TamperedBundleFails ==
    (cPc = "decrypted" /\ ~Untouched)
    => /\ cOut.raised
       /\ ~cOut.some

\* only the last bit of the nonce was flipped
C23_Witness ==
    /\ cPc = "decrypted"
    /\ cNonce[1].flipped = {"last"}
    /\ cCiphertext[1].flipped = {}
    /\ cGender = <<70>>
    /\ cOut.raised

(***************************************************************************)
(* C24  Soundness of proofs (collision-free hash): for every leaf list,    *)
(* every valid index i and every digest d different from leaves[i],        *)
(* verify_proof(d, get_proof(leaves, i), build_root_from_hashes(leaves))   *)
(* returns False.                                                          *)
(***************************************************************************)
C24_Soundness ==
    (/\ vPc = "verified"
     /\ vSuffix = 0
     /\ vCand # vLeaves[vIndex + 1])
    => vVerdict = FALSE

\* another leaf of the list offered in place of the unpaired last leaf
C24_Witness ==
    /\ vPc = "verified" /\ vSuffix = 0
    /\ Len(vLeaves) = 3 /\ vIndex = 2
    /\ vCand = vLeaves[1]
    /\ vCand # vLeaves[3]
    /\ vVerdict = FALSE

(***************************************************************************)
(* C25  As claimed: with the hash collision-free, two leaf lists of        *)
(* different lengths never have the same root under                        *)
(* build_root_from_hashes; in particular appending a copy of the last leaf *)
(* to an odd-length list, or replacing the two leaves [a, b] by the single *)
(* leaf node_hash(a, b), changes the root.                                 *)
(***************************************************************************)
C25_DifferentLengthsDifferentRoots ==
    (vPc = "compared" /\ Len(vLeaves) # Len(vLeavesB))
    => vRoot # vRootB

(***************************************************************************)
(* C26  Hash consistency: after any sequence of insert_patient_with_hash   *)
(* and update_patient_with_hash calls that returned True, with no direct   *)
(* write to the table, every row's stored row_hash equals                  *)
(* compute_patient_row_hash of that row's stored id and fields, so the     *)
(* data-versus-hash check of the with_proof endpoint passes for every row  *)
(* (no query is answered with the integrity-breach error).                 *)
(***************************************************************************)
C26_HashConsistency ==
    /\ wPc = "idle" =>
          /\ \A id \in DOMAIN Patients : RowConsistent(Patients, id)
          /\ \A id \in DOMAIN WTable : RowConsistent(WTable, id)
    /\ response.op = "write" => response.kind = "True"
    /\ response.op = "with_proof" => response.kind # "breach"
    /\ Queried =>
          compute_patient_row_hash(lastResult.patient) = lastResult.row_hash

\* the only row inserted, a root pinned over it, the row updated to other
\* field values (its leaf is no longer the pinned one), then queried
C26_Witness ==
    /\ Queried
    /\ response.patient_id = 1
    /\ nextId = 2
    /\ Len(pinnedLeaves) = 1
    /\ pinnedLeaves # LeafHashes(Patients)
    /\ RowConsistent(Patients, 1)
    /\ compute_patient_row_hash(lastResult.patient) = lastResult.row_hash

(***************************************************************************)
(* C27  As claimed: insert_patient_with_hash and update_patient_with_hash  *)
(* are all-or-nothing: a call that returns False (a statement failed)      *)
(* leaves the table as it was before the call, also when the caller        *)
(* commits afterwards.  Checked on the table as the writing connection     *)
(* sees it, at the step in which the call returns False: when the first    *)
(* statement failed nothing has changed, and when the second statement of  *)
(* an insert failed the row the call inserted is not in the table.         *)
(***************************************************************************)
C27_FailedWriteLeavesTableAlone ==
    [][response' = WriteReturned(FALSE) =>
          /\ wPc = "idle" => WTable' = WTable
          /\ wPc = "insert" => wCall.id \notin DOMAIN WTable']_vars

====
